---- MODULE Spec2Model ----
(***************************************************************************)
(* A model of the URL shortener's core:                                    *)
(*   - the Safe Browsing client's resilience layer (circuit breaker and    *)
(*     rate limiter) of src/src/lib/safeBrowsingClient.ts,                 *)
(*   - the short-code generator and its uniqueness loop                    *)
(*     (the shortCodeGenerator part of src/src/lib/supabase.js),           *)
(*   - the create flow POST /api/shorten of                                *)
(*     src/src/app/api/shorten/route.ts over the links table.              *)
(* Time is in milliseconds, as in the code (Date.now()).                   *)
(***************************************************************************)
EXTENDS Integers, Sequences, FiniteSets, TLC

(***************************************************************************)
(* Bounds of the model.                                                    *)
(***************************************************************************)
\* The clock advances in steps of TickMs; the clock stops after MaxTicks steps.
TickMs == 30000
MaxTicks == 4
\* At most MaxInFlight checkUrls calls await the upstream at the same time.
MaxInFlight == 2
\* rateLimitInfo.limit; the code's constructor sets 1000 (safeBrowsingClient.ts:80-82).
Limit == 5

(***************************************************************************)
(* Program constants of the Safe Browsing client.                          *)
(***************************************************************************)
FAILURE_THRESHOLD == 5
COOLDOWN_MS == 60000
WINDOW_MS == 60000
MAX_URLS_PER_REQUEST == 500

Max(a, b) == IF a >= b THEN a ELSE b

(***************************************************************************)
(* URLs handed to checkUrls.  A URL is a sample string; what trim(),       *)
(* startsWith() and new URL() do on each sample is tabulated.  "null"      *)
(* stands for a non-string value (null / undefined).                       *)
(***************************************************************************)
SampleUrls ==
  { "null", "", "  ", "example.com", " https://safe.example ",
    "https://safe.example", "http://evil.example", "http://exa mple" }

NonString(u) == u = "null"

\* String.prototype.trim on the samples
Trim(u) ==
  CASE u = "  " -> ""
    [] u = " https://safe.example " -> "https://safe.example"
    [] OTHER -> u

\* url.startsWith('http://') || url.startsWith('https://')
HasHttpScheme(u) ==
  u \in { "https://safe.example", "http://evil.example", "http://exa mple",
          "http://example.com", "http://" }

\* 'http://' + url on the samples that lack a scheme
PrefixHttp(u) ==
  CASE u = "" -> "http://"
    [] u = "example.com" -> "http://example.com"
    [] OTHER -> u

\* new URL(url) succeeds
UrlParses(u) ==
  u \in { "https://safe.example", "http://evil.example", "http://example.com" }

\* sanitizeUrl: [err |-> code or "", url |-> sanitized URL]
sanitizeUrl(u) ==
  IF NonString(u) \/ u = ""
  THEN [err |-> "INVALID_URL", url |-> u]
  ELSE LET t == Trim(u)
           p == IF HasHttpScheme(t) THEN t ELSE PrefixHttp(t)
       IN IF UrlParses(p) THEN [err |-> "", url |-> p]
          ELSE [err |-> "INVALID_URL_FORMAT", url |-> p]

\* some URL of the input is not a string, or is empty once trimmed
HasBlankUrl(urls) ==
  \E i \in 1..Len(urls) : NonString(urls[i]) \/ Trim(urls[i]) = ""

\* urls.map(url => this.sanitizeUrl(url)): the first error thrown, if any
firstSanitizeError(urls) ==
  LET bad == {i \in 1..Len(urls) : sanitizeUrl(urls[i]).err # ""}
  IN IF bad = {} THEN ""
     ELSE sanitizeUrl(urls[CHOOSE i \in bad : \A j \in bad : i <= j]).err

(***************************************************************************)
(* The circuit breaker and the rate limiter, as functions of the record    *)
(* and the current time.  An optional Date is a set: {} or {t}.            *)
(***************************************************************************)
\* constructor: this.circuitBreaker
InitialCircuitBreaker ==
  [state |-> "CLOSED", failureCount |-> 0,
   lastFailureTime |-> {}, nextAttemptTime |-> {}]

\* constructor: this.rateLimitInfo, built at time t
InitialRateLimitInfo(t) ==
  [remaining |-> Limit, resetTime |-> t + WINDOW_MS, limit |-> Limit]

\* a checkCircuitBreaker whose trial call starts from a cleared failure count
checkCircuitBreaker_TrialClearsCount(cb, t) ==
  IF cb.state = "OPEN"
  THEN IF \E n \in cb.nextAttemptTime : t < n
       THEN [err |-> "CIRCUIT_BREAKER_OPEN", cb |-> cb]
       ELSE [err |-> "", cb |-> [cb EXCEPT !.state = "HALF_OPEN", !.failureCount = 0]]
  ELSE [err |-> "", cb |-> cb]

\* checkCircuitBreaker: [err |-> code thrown or "", cb |-> the record afterwards]
checkCircuitBreaker(cb, t) ==
  IF cb.state = "OPEN"
  THEN IF \E n \in cb.nextAttemptTime : t < n
       THEN [err |-> "CIRCUIT_BREAKER_OPEN", cb |-> cb]
       ELSE [err |-> "", cb |-> [cb EXCEPT !.state = "HALF_OPEN"]]
  ELSE [err |-> "", cb |-> cb]

\* a checkRateLimit that rejects only below zero
checkRateLimit_OffByOne(rl) ==
  IF rl.remaining < 0 THEN "RATE_LIMIT_EXCEEDED" ELSE ""

\* checkRateLimit: the code thrown, or ""
checkRateLimit(rl) ==
  IF rl.remaining <= 0 THEN "RATE_LIMIT_EXCEEDED" ELSE ""

\* an updateRateLimitInfo that subtracts without the floor at 0
updateRateLimitInfo_NoFloor(rl, t) ==
  LET r1 == [rl EXCEPT !.remaining = rl.remaining - 1]
  IN IF t > r1.resetTime
     THEN [r1 EXCEPT !.remaining = r1.limit, !.resetTime = t + WINDOW_MS]
     ELSE r1

\* updateRateLimitInfo
updateRateLimitInfo(rl, t) ==
  LET r1 == [rl EXCEPT !.remaining = Max(0, rl.remaining - 1)]
  IN IF t > r1.resetTime
     THEN [r1 EXCEPT !.remaining = r1.limit, !.resetTime = t + WINDOW_MS]
     ELSE r1

\* a handleCircuitBreakerFailure that opens one failure late
handleCircuitBreakerFailure_Late(cb, t) ==
  LET c1 == [cb EXCEPT !.failureCount = @ + 1, !.lastFailureTime = {t}]
  IN IF c1.failureCount > FAILURE_THRESHOLD
     THEN [c1 EXCEPT !.state = "OPEN", !.nextAttemptTime = {t + COOLDOWN_MS}]
     ELSE c1

\* a handleCircuitBreakerFailure whose count stops at the threshold
handleCircuitBreakerFailure_Saturates(cb, t) ==
  LET c1 == [cb EXCEPT !.failureCount = IF @ < FAILURE_THRESHOLD THEN @ + 1 ELSE @,
                       !.lastFailureTime = {t}]
  IN IF c1.failureCount >= FAILURE_THRESHOLD
     THEN [c1 EXCEPT !.state = "OPEN", !.nextAttemptTime = {t + COOLDOWN_MS}]
     ELSE c1

\* handleCircuitBreakerFailure
handleCircuitBreakerFailure(cb, t) ==
  LET c1 == [cb EXCEPT !.failureCount = @ + 1, !.lastFailureTime = {t}]
  IN IF c1.failureCount >= FAILURE_THRESHOLD
     THEN [c1 EXCEPT !.state = "OPEN", !.nextAttemptTime = {t + COOLDOWN_MS}]
     ELSE c1

\* a resetCircuitBreaker that keeps the failure count
resetCircuitBreaker_KeepCount(cb) ==
  [cb EXCEPT !.state = "CLOSED", !.lastFailureTime = {}, !.nextAttemptTime = {}]

\* resetCircuitBreaker
resetCircuitBreaker(cb) ==
  [cb EXCEPT !.state = "CLOSED", !.failureCount = 0,
             !.lastFailureTime = {}, !.nextAttemptTime = {}]

\* an entry that consults the rate limiter before the breaker
checkUrlsEntry_LimiterFirst(urls, cb, rl, t) ==
  IF Len(urls) = 0 THEN [err |-> "INVALID_INPUT", cb |-> cb]
  ELSE IF Len(urls) > MAX_URLS_PER_REQUEST THEN [err |-> "TOO_MANY_URLS", cb |-> cb]
  ELSE IF checkRateLimit(rl) # "" THEN [err |-> checkRateLimit(rl), cb |-> cb]
  ELSE LET b == checkCircuitBreaker(cb, t)
       IN IF b.err # "" THEN b
          ELSE [err |-> firstSanitizeError(urls), cb |-> b.cb]

\* an entry that consults the breaker before it looks at the input
checkUrlsEntry_BreakerFirst(urls, cb, rl, t) ==
  LET b == checkCircuitBreaker(cb, t)
  IN IF b.err # "" THEN b
     ELSE IF Len(urls) = 0 THEN [err |-> "INVALID_INPUT", cb |-> b.cb]
     ELSE IF Len(urls) > MAX_URLS_PER_REQUEST THEN [err |-> "TOO_MANY_URLS", cb |-> b.cb]
     ELSE IF checkRateLimit(rl) # "" THEN [err |-> checkRateLimit(rl), cb |-> b.cb]
     ELSE [err |-> firstSanitizeError(urls), cb |-> b.cb]

\* an entry that counts a call turned away by the rate limiter as a failure
checkUrlsEntry_CountsThrottled(urls, cb, rl, t) ==
  IF Len(urls) = 0 THEN [err |-> "INVALID_INPUT", cb |-> cb]
  ELSE IF Len(urls) > MAX_URLS_PER_REQUEST THEN [err |-> "TOO_MANY_URLS", cb |-> cb]
  ELSE LET b == checkCircuitBreaker(cb, t)
       IN IF b.err # "" THEN b
          ELSE IF checkRateLimit(rl) # ""
          THEN [err |-> checkRateLimit(rl), cb |-> handleCircuitBreakerFailure(b.cb, t)]
          ELSE [err |-> firstSanitizeError(urls), cb |-> b.cb]

\* checkUrls up to the await of makeApiCall's fetch:
\* [err |-> the code thrown or "" when the request is dispatched, cb |-> breaker afterwards]
checkUrlsEntry(urls, cb, rl, t) ==
  IF Len(urls) = 0 THEN [err |-> "INVALID_INPUT", cb |-> cb]
  ELSE IF Len(urls) > MAX_URLS_PER_REQUEST THEN [err |-> "TOO_MANY_URLS", cb |-> cb]
  ELSE LET b == checkCircuitBreaker(cb, t)
       IN IF b.err # "" THEN b
          ELSE IF checkRateLimit(rl) # "" THEN [err |-> checkRateLimit(rl), cb |-> b.cb]
          ELSE [err |-> firstSanitizeError(urls), cb |-> b.cb]


(***************************************************************************)
(* parseResponse.  A match of the response is [url |-> match.threat.url,   *)
(* threatType, platformType]; response.matches may be missing.             *)
(***************************************************************************)
\* bound: URLs in a parsed call, and matches in a response
MaxParseLen == 2

\* sanitized URLs
ParseUrls == { "https://safe.example", "http://evil.example", "http://example.com" }

\* matches the upstream may return: two for one URL, one whose URL differs from
\* it by a trailing slash, one for another URL
ParseMatches ==
  { [url |-> "http://evil.example", threatType |-> "MALWARE",
     platformType |-> "ANY_PLATFORM"],
    [url |-> "http://evil.example", threatType |-> "SOCIAL_ENGINEERING",
     platformType |-> "WINDOWS"],
    [url |-> "http://evil.example/", threatType |-> "MALWARE",
     platformType |-> "ANY_PLATFORM"],
    [url |-> "http://example.com", threatType |-> "UNWANTED_SOFTWARE",
     platformType |-> "ANY_PLATFORM"] }

\* the sequences over S of length lo..hi
SeqsOf(S, lo, hi) == UNION { [1..n -> S] : n \in lo..hi }

\* a parseResponse that calls a URL unsafe as soon as the response has a match
parseResponse_AnyMatch(urls, matches) ==
  [i \in 1..Len(urls) |->
     LET urlThreats == SelectSeq(matches, LAMBDA m : m.url = urls[i])
     IN [url |-> urls[i],
         isSafe |-> Len(matches) = 0,
         threats |-> [k \in 1..Len(urlThreats) |->
                        [type |-> urlThreats[k].threatType,
                         platform |-> urlThreats[k].platformType]]]]

\* parseResponse(urls, response), with matches = response.matches || []
parseResponse(urls, matches) ==
  [i \in 1..Len(urls) |->
     LET urlThreats == SelectSeq(matches, LAMBDA m : m.url = urls[i])
     IN [url |-> urls[i],
         isSafe |-> Len(urlThreats) = 0,
         threats |-> [k \in 1..Len(urlThreats) |->
                        [type |-> urlThreats[k].threatType,
                         platform |-> urlThreats[k].platformType]]]]

(***************************************************************************)
(* The short-code generator (shortCodeGenerator part of supabase.js).      *)
(* A code is the sequence of its characters' indices in CHARACTER_SET.     *)
(***************************************************************************)
DEFAULT_CODE_LENGTH == 6
MAX_CODE_LENGTH == 8
MIN_CODE_LENGTH == 4
MAX_RETRY_ATTEMPTS == 10
\* CHARACTER_SET.length
CHARACTER_SET_LENGTH == 62
\* the largest maxRetries the configuration check accepts
MAX_RETRIES_ALLOWED == 100
\* the values of a byte
BYTE_RANGE == 256

\* bound: maxRetries 0..GenMaxRetries are tried (and the default 10, and 101)
GenMaxRetries == 3

\* samples of crypto.randomBytes(n): a byte pair repeated
BytePairs == { <<0, 0>>, <<1, 1>>, <<255, 255>> }

randomBytes(n, pair) == [i \in 1..n |-> IF i % 2 = 1 THEN pair[1] ELSE pair[2]]

\* a generateRandomCode that reduces modulo 64, two more than the alphabet has
generateRandomCode_Mod64(length, pair) ==
  IF length < MIN_CODE_LENGTH \/ length > MAX_CODE_LENGTH
  THEN [err |-> "InvalidLength", code |-> <<>>]
  ELSE LET bytes == randomBytes(length * 2, pair)
       IN [err |-> "",
           code |-> [i \in 1..length |->
                       (bytes[2 * i - 1] * BYTE_RANGE + bytes[2 * i]) % 64]]

\* generateRandomCode(length) on the bytes drawn: [err, code]
generateRandomCode(length, pair) ==
  IF length < MIN_CODE_LENGTH \/ length > MAX_CODE_LENGTH
  THEN [err |-> "InvalidLength", code |-> <<>>]
  ELSE LET bytes == randomBytes(length * 2, pair)
       IN [err |-> "",
           code |-> [i \in 1..length |->
                       (bytes[2 * i - 1] * BYTE_RANGE + bytes[2 * i]) % CHARACTER_SET_LENGTH]]

\* what the existence query of isCodeExists can come back with:
\*   row       {data: row,  error: null}
\*   empty     {data: null, error: null}
\*   notfound  {data: null, error: {code: 'PGRST116'}}
\*   dberror   {data: null, error: {code: other}}
\*   rejected  the query throws / its promise rejects
StoreReplies == {"row", "empty", "notfound", "dberror", "rejected"}

\* isCodeExists: [threw |-> message of the Error thrown or "", exists |-> result]
isCodeExists(admin, reply) ==
  IF ~admin
  THEN [threw |-> "Database connection not available", exists |-> FALSE]
  ELSE CASE reply = "row" -> [threw |-> "", exists |-> TRUE]
         [] reply \in {"empty", "notfound"} -> [threw |-> "", exists |-> FALSE]
         [] reply = "dberror" -> [threw |-> "Database query failed", exists |-> FALSE]
         [] OTHER -> [threw |-> "Failed to check code existence", exists |-> FALSE]

NoError == [kind |-> "none", attempt |-> 0, message |-> ""]

NoResult ==
  [success |-> FALSE, shortCode |-> <<>>, attempts |-> 0,
   error |-> [kind |-> "none", maxRetries |-> 0, last |-> NoError]]

\* generateUniqueShortCode's locals, and its position: "query" is the await of
\* isCodeExists, "done" is after a return
GenIdle ==
  [pc |-> "idle", length |-> 0, maxRetries |-> 0, attempts |-> 0,
   shortCode |-> <<>>, lastError |-> NoError, result |-> NoResult]

GenFailure(g, kind) ==
  [g EXCEPT !.pc = "done",
            !.result = [success |-> FALSE, shortCode |-> <<>>, attempts |-> g.attempts,
                        error |-> [kind |-> kind, maxRetries |-> g.maxRetries,
                                   last |-> g.lastError]]]

\* a loop head that allows one attempt too many
genLoop_OneMore(g, pair) ==
  IF g.attempts <= g.maxRetries
  THEN [g EXCEPT !.pc = "query", !.attempts = @ + 1,
                 !.shortCode = generateRandomCode(g.length, pair).code]
  ELSE GenFailure(g, "exhausted")

\* while (attempts < maxRetries) { attempts++; shortCode = generateRandomCode(length);
\* await isCodeExists(shortCode) ... }, and the "all attempts exhausted" return
genLoop(g, pair) ==
  IF g.attempts < g.maxRetries
  THEN [g EXCEPT !.pc = "query", !.attempts = @ + 1,
                 !.shortCode = generateRandomCode(g.length, pair).code]
  ELSE GenFailure(g, "exhausted")

\* an entry that validates the length only
genEnter_NoRetriesCheck(length, maxRetries, pair) ==
  LET g == [GenIdle EXCEPT !.length = length, !.maxRetries = maxRetries]
  IN IF length < MIN_CODE_LENGTH \/ length > MAX_CODE_LENGTH
     THEN GenFailure(g, "invalid length")
     ELSE genLoop(g, pair)

\* generateUniqueShortCode from its entry to the first await
genEnter(length, maxRetries, pair) ==
  LET g == [GenIdle EXCEPT !.length = length, !.maxRetries = maxRetries]
  IN IF length < MIN_CODE_LENGTH \/ length > MAX_CODE_LENGTH
     THEN GenFailure(g, "invalid length")
     ELSE IF maxRetries < 1 \/ maxRetries > MAX_RETRIES_ALLOWED
     THEN GenFailure(g, "invalid maxRetries")
     ELSE genLoop(g, pair)

\* a loop body that starts its count of attempts again after a collision
genOnReply_RestartsCount(g, admin, reply, pair) ==
  LET x == isCodeExists(admin, reply)
  IN IF x.threw = "" /\ ~x.exists
     THEN [g EXCEPT !.pc = "done",
                    !.result = [NoResult EXCEPT !.success = TRUE,
                                                !.shortCode = g.shortCode,
                                                !.attempts = g.attempts]]
     ELSE IF x.threw = ""
     THEN genLoop([g EXCEPT !.attempts = 0,
                            !.lastError =
                              [kind |-> "collision", attempt |-> g.attempts, message |-> ""]],
                  pair)
     ELSE GenFailure([g EXCEPT !.lastError =
                        [kind |-> "thrown", attempt |-> g.attempts, message |-> x.threw]],
                     "database error")

\* a loop body that does not count an attempt whose query threw
genOnReply_ThrowNotCounted(g, admin, reply, pair) ==
  LET x == isCodeExists(admin, reply)
  IN IF x.threw = "" /\ ~x.exists
     THEN [g EXCEPT !.pc = "done",
                    !.result = [NoResult EXCEPT !.success = TRUE,
                                                !.shortCode = g.shortCode,
                                                !.attempts = g.attempts]]
     ELSE IF x.threw = ""
     THEN genLoop([g EXCEPT !.lastError =
                     [kind |-> "collision", attempt |-> g.attempts, message |-> ""]],
                  pair)
     ELSE IF x.threw \in {"Database query failed", "Database connection not available"}
     THEN GenFailure([g EXCEPT !.lastError =
                        [kind |-> "thrown", attempt |-> g.attempts, message |-> x.threw]],
                     "database error")
     ELSE genLoop([g EXCEPT !.attempts = @ - 1,
                            !.lastError =
                              [kind |-> "thrown", attempt |-> g.attempts, message |-> x.threw]],
                  pair)

\* the rest of the loop body once isCodeExists has returned or thrown, up to the
\* next await or the return
genOnReply(g, admin, reply, pair) ==
  LET x == isCodeExists(admin, reply)
  IN IF x.threw = ""
     THEN IF ~x.exists
          THEN [g EXCEPT !.pc = "done",
                         !.result = [NoResult EXCEPT !.success = TRUE,
                                                     !.shortCode = g.shortCode,
                                                     !.attempts = g.attempts]]
          ELSE genLoop([g EXCEPT !.lastError =
                          [kind |-> "collision", attempt |-> g.attempts, message |-> ""]],
                       pair)
     ELSE LET g1 == [g EXCEPT !.lastError =
                       [kind |-> "thrown", attempt |-> g.attempts, message |-> x.threw]]
          IN IF x.threw \in {"Database query failed", "Database connection not available"}
             THEN GenFailure(g1, "database error")
             ELSE genLoop(g1, pair)

\* a JavaScript value passed as shortCode: null, undefined, the numbers 0 and
\* 123, an object, or a string, whose characters are indexes in CHARACTER_SET
\* when below CHARACTER_SET_LENGTH and characters outside it ('-', ' ') otherwise
Str(chars) == [type |-> "string", chars |-> chars]

NonStrings ==
  { [type |-> t, chars |-> <<>>] : t \in {"null", "undefined", "zero", "number", "object"} }

\* !value
Falsy(v) == v.type \in {"null", "undefined", "zero"} \/ v = Str(<<>>)

\* CHARACTER_SET.includes(char)
InCharacterSet(c) == c \in 0..(CHARACTER_SET_LENGTH - 1)

\* an isValidShortCodeFormat that looks at the length only
isValidShortCodeFormat_LengthOnly(v) ==
  IF Falsy(v) \/ v.type # "string"
  THEN FALSE
  ELSE ~(Len(v.chars) < MIN_CODE_LENGTH \/ Len(v.chars) > MAX_CODE_LENGTH)

isValidShortCodeFormat(v) ==
  IF Falsy(v) \/ v.type # "string"
  THEN FALSE
  ELSE IF Len(v.chars) < MIN_CODE_LENGTH \/ Len(v.chars) > MAX_CODE_LENGTH
  THEN FALSE
  ELSE \A i \in 1..Len(v.chars) : InCharacterSet(v.chars[i])

(***************************************************************************)
(* The create flow, POST /api/shorten (route.ts), and the links table.     *)
(***************************************************************************)
RATE_LIMIT_WINDOW == 60000
RATE_LIMIT_MAX_REQUESTS == 10

\* bound: the POST requests of a run, which may all be in flight together
NumRequests == 2

\* request.nextUrl.origin
ServiceOrigin == "https://short.example"

\* the Origin header of a request ("" when absent)
OriginHeaders == {"", "https://short.example", "https://other.example"}

\* a request body that is not JSON
BadJson == "{not json"

\* the url field of the request body, on samples
CreateUrls ==
  { "", "   ", "not a url", "ftp://files.example/a", "https://short.example/abc",
    "https://safe.example/page", "http://evil.example/malware",
    "https://safe.example/?next=javascript:alert(1)" }

\* the URLs the Safe Browsing lists hold (what a threat check would flag)
FlaggedByUpstream(u) == u = "http://evil.example/malware"

\* !url || !url.trim()
IsBlank(u) == u \in {"", "   "}

\* new URL(url).protocol, "" when new URL throws
UrlProtocol(u) ==
  CASE u \in {"", "   ", "not a url"} -> ""
    [] u = "ftp://files.example/a" -> "ftp:"
    [] u = "http://evil.example/malware" -> "http:"
    [] OTHER -> "https:"

\* new URL(url).origin
UrlOrigin(u) ==
  CASE u = "https://short.example/abc" -> "https://short.example"
    [] u = "http://evil.example/malware" -> "http://evil.example"
    [] u = "ftp://files.example/a" -> "ftp://files.example"
    [] OTHER -> "https://safe.example"

\* one of /javascript:/i, /data:/i, /vbscript:/i, /file:/i, /ftp:/i matches
MatchesSuspiciousPattern(u) ==
  u \in {"ftp://files.example/a", "https://safe.example/?next=javascript:alert(1)"}

isValidUrl(u) ==
  IF IsBlank(u) THEN FALSE ELSE UrlProtocol(u) \in {"http:", "https:"}

isSecureUrl(u, requestOrigin) ==
  IF UrlProtocol(u) = "" THEN FALSE
  ELSE IF UrlOrigin(u) = requestOrigin THEN FALSE
  ELSE ~MatchesSuspiciousPattern(u)

\* the x-forwarded-for and x-real-ip headers of a request ("" when absent)
IpHeaders ==
  { [forwarded |-> "", realIP |-> ""],
    [forwarded |-> "203.0.113.7, 10.0.0.1", realIP |-> "198.51.100.9"] }

getClientIP(h) ==
  IF h.forwarded # "" THEN "203.0.113.7"
  ELSE IF h.realIP # "" THEN h.realIP
  ELSE "127.0.0.1"

\* an isRateLimited that blocks only once the count is above the maximum
isRateLimited_OneTooMany(map, clientIP, t) ==
  IF clientIP \notin DOMAIN map \/ t > map[clientIP].resetTime
  THEN [limited |-> FALSE,
        map |-> [ip \in DOMAIN map \cup {clientIP} |->
                   IF ip = clientIP
                   THEN [count |-> 1, resetTime |-> t + RATE_LIMIT_WINDOW]
                   ELSE map[ip]]]
  ELSE IF map[clientIP].count > RATE_LIMIT_MAX_REQUESTS
  THEN [limited |-> TRUE, map |-> map]
  ELSE [limited |-> FALSE, map |-> [map EXCEPT ![clientIP].count = @ + 1]]

\* isRateLimited: [limited |-> the result, map |-> rateLimitMap afterwards]
isRateLimited(map, clientIP, t) ==
  IF clientIP \notin DOMAIN map \/ t > map[clientIP].resetTime
  THEN [limited |-> FALSE,
        map |-> [ip \in DOMAIN map \cup {clientIP} |->
                   IF ip = clientIP
                   THEN [count |-> 1, resetTime |-> t + RATE_LIMIT_WINDOW]
                   ELSE map[ip]]]
  ELSE IF map[clientIP].count >= RATE_LIMIT_MAX_REQUESTS
  THEN [limited |-> TRUE, map |-> map]
  ELSE [limited |-> FALSE, map |-> [map EXCEPT ![clientIP].count = @ + 1]]

\* the links table: a sequence of rows, in insertion order
HasCode(table, code) == \E i \in DOMAIN table : table[i].short_code = code

\* an INSERT on a table without the primary key
insertLink_NoPrimaryKey(table, code, url) ==
  [error |-> "",
   links |-> Append(table, [short_code |-> code, long_url |-> url, click_count |-> 0])]

\* INSERT INTO links (short_code, long_url): short_code is the PRIMARY KEY,
\* click_count DEFAULT 0.  [error |-> SQLSTATE or "", links |-> the table afterwards]
insertLink(table, code, url) ==
  IF HasCode(table, code)
  THEN [error |-> "23505", links |-> table]
  ELSE [error |-> "",
        links |-> Append(table, [short_code |-> code, long_url |-> url, click_count |-> 0])]

\* a POST request: its position ("query": inside generateUniqueShortCode at the await
\* of isCodeExists; "insert": at the await of the insert), its inputs and its answer
IdleRequest ==
  [pc |-> "idle", url |-> "", g |-> GenIdle, status |-> 0, error |-> "",
   shortCode |-> <<>>, shortUrl |-> <<>>, inserts |-> 0, conflict |-> FALSE]

\* the request is answered: what remains is the response (longUrl and shortCode are
\* part of it only when it is a 200) and the record of the inserts it made
Answer(q, status, error) ==
  [q EXCEPT !.pc = "done", !.status = status, !.error = error, !.g = GenIdle,
            !.url = IF status = 200 THEN @ ELSE "",
            !.shortCode = IF status = 200 THEN @ ELSE <<>>]

\* POST after generateUniqueShortCode has returned: 500, or the insert is issued
postAfterGenerate(q) ==
  IF ~q.g.result.success \/ q.g.result.shortCode = <<>>
  THEN Answer(q, 500, "generation failed")
  ELSE [q EXCEPT !.pc = "insert", !.shortCode = q.g.result.shortCode,
                 !.inserts = @ + 1]

\* POST between two awaits of generateUniqueShortCode
postGenerating(q) ==
  IF q.g.pc = "query" THEN [q EXCEPT !.pc = "query"] ELSE postAfterGenerate(q)

\* POST from its entry to its first await on the store, the rate limiter aside
postEnter(body, originHeader, admin, pair) ==
  LET q == [IdleRequest EXCEPT !.url = body]
      requestOrigin == IF originHeader # "" THEN originHeader ELSE ServiceOrigin
  IN IF body = BadJson THEN Answer([q EXCEPT !.url = ""], 500, "Internal server error")
     ELSE IF IsBlank(body) THEN Answer(q, 400, "URL is required")
     ELSE IF ~isValidUrl(body) THEN Answer(q, 400, "invalid URL")
     ELSE IF ~isSecureUrl(body, requestOrigin) THEN Answer(q, 400, "security validation")
     ELSE IF ~admin THEN Answer(q, 500, "Database connection not available")
     ELSE postGenerating([q EXCEPT !.g =
                            genEnter(DEFAULT_CODE_LENGTH, MAX_RETRY_ATTEMPTS, pair)])

\* a handler that answers 200 whatever the insert came back with
postAfterInsert_IgnoresError(q, error) ==
  [Answer(q, 200, "") EXCEPT !.shortUrl = <<ServiceOrigin, "/", q.shortCode>>]

\* POST once the insert has come back with insertError = error ("" for none)
postAfterInsert(q, error) ==
  IF error # ""
  THEN [Answer(q, 500, "Failed to store URL mapping") EXCEPT !.conflict = (error = "23505")]
  ELSE [Answer(q, 200, "") EXCEPT !.shortUrl = <<ServiceOrigin, "/", q.shortCode>>]

(***************************************************************************)
(* The resolve flow, GET /[shortId] ([shortId]/route.ts), and the SQL       *)
(* function increment_click_count.  A short code is, as above, the         *)
(* sequence of its characters' indices.                                    *)
(***************************************************************************)
\* shortId.length < 4 || shortId.length > 8
MIN_SHORT_ID_LENGTH == 4
MAX_SHORT_ID_LENGTH == 8

\* bound: the GET requests of a run, which may all be in flight together
NumGets == 2

\* codes of the table: one with a well-formed URL, one with a URL that does not
\* parse, one with an empty URL; and a code no row has
CodeStored == [i \in 1..DEFAULT_CODE_LENGTH |-> 0]
CodeMalformed == [i \in 1..DEFAULT_CODE_LENGTH |-> 1]
CodeEmptyUrl == [i \in 1..DEFAULT_CODE_LENGTH |-> 2]
CodeAbsent == [i \in 1..DEFAULT_CODE_LENGTH |-> 9]

\* the shortId route parameter, on samples: the four codes, "", and codes of
\* 3, 4, 8 and 9 characters
ShortIds ==
  { CodeStored, CodeMalformed, CodeEmptyUrl, CodeAbsent, <<>> }
    \cup { [i \in 1..n |-> 9] :
             n \in { MIN_SHORT_ID_LENGTH - 1, MIN_SHORT_ID_LENGTH,
                     MAX_SHORT_ID_LENGTH, MAX_SHORT_ID_LENGTH + 1 } }

\* the table the resolve flow runs against: rows as the create flow leaves them
\* (click_count DEFAULT 0), and two rows written past it
StoredLinks ==
  << [short_code |-> CodeStored, long_url |-> "https://safe.example/page", click_count |-> 0],
     [short_code |-> CodeMalformed, long_url |-> "not a url", click_count |-> 0],
     [short_code |-> CodeEmptyUrl, long_url |-> "", click_count |-> 0] >>

\* .from('links').select('long_url, click_count').eq('short_code', code).single():
\* [data |-> the row, as a sequence of none or one, error |-> error.code or ""]
selectLink(table, code) ==
  IF HasCode(table, code)
  THEN [data |-> << table[CHOOSE i \in DOMAIN table : table[i].short_code = code] >>,
        error |-> ""]
  ELSE [data |-> <<>>, error |-> "PGRST116"]

\* an UPDATE that stores 1 instead of adding 1
increment_click_count_Overwrites(table, code) ==
  [i \in DOMAIN table |->
     IF table[i].short_code = code THEN [table[i] EXCEPT !.click_count = 1]
     ELSE table[i]]

\* an UPDATE without its WHERE clause
increment_click_count_AllRows(table, code) ==
  [i \in DOMAIN table |-> [table[i] EXCEPT !.click_count = @ + 1]]

\* UPDATE public.links SET click_count = click_count + 1 WHERE short_code = code
increment_click_count(table, code) ==
  [i \in DOMAIN table |->
     IF table[i].short_code = code THEN [table[i] EXCEPT !.click_count = @ + 1]
     ELSE table[i]]

\* new URL(u) does not throw
UrlWellFormed(u) == UrlProtocol(u) # ""

\* a GET request: its position ("select": at the await of the query), the shortId,
\* the data and the error the query returned ("threw" when it threw), the answer,
\* and the state of the increment it dispatched ("none", "pending", "applied",
\* "error", "threw")
IdleGet ==
  [pc |-> "idle", shortId |-> <<>>, data |-> <<>>, dbError |-> "", status |-> 0,
   error |-> "", location |-> "", inc |-> "none"]

GetAnswer(q, status, error) == [q EXCEPT !.pc = "done", !.status = status, !.error = error]

\* GET from its entry to the await of the query
getEnter(shortId, admin) ==
  LET q == [IdleGet EXCEPT !.shortId = shortId]
  IN IF Len(shortId) = 0 \/ Len(shortId) < MIN_SHORT_ID_LENGTH
          \/ Len(shortId) > MAX_SHORT_ID_LENGTH
     THEN GetAnswer(q, 400, "Invalid short code format")
     ELSE IF ~admin THEN GetAnswer(q, 503, "Service temporarily unavailable")
     ELSE [q EXCEPT !.pc = "select"]

\* the locals of GET once the query has come back with reply, or has thrown
getQueried(q, reply, threw) ==
  [q EXCEPT !.data = IF threw THEN <<>> ELSE reply.data,
            !.dbError = IF threw THEN "threw" ELSE reply.error]

\* a handler that redirects to whatever the row holds
getAfterSelect_NoValidation(q, reply, threw) ==
  LET q1 == getQueried(q, reply, threw)
  IN IF threw THEN GetAnswer(q1, 500, "Internal Server Error")
     ELSE IF reply.error # ""
     THEN IF reply.error = "PGRST116" THEN GetAnswer(q1, 404, "Short URL not found")
          ELSE GetAnswer(q1, 500, "Database error")
     ELSE IF reply.data = <<>> \/ reply.data[1].long_url = ""
     THEN GetAnswer(q1, 404, "Short URL not found")
     ELSE [GetAnswer(q1, 307, "")
             EXCEPT !.location = reply.data[1].long_url, !.inc = "pending"]

\* a handler that counts a visit before it knows whether a row exists
getAfterSelect_AlwaysCounts(q, reply, threw) ==
  LET q1 == [getQueried(q, reply, threw) EXCEPT !.inc = "pending"]
  IN IF threw THEN GetAnswer(q1, 500, "Internal Server Error")
     ELSE IF reply.error # ""
     THEN IF reply.error = "PGRST116" THEN GetAnswer(q1, 404, "Short URL not found")
          ELSE GetAnswer(q1, 500, "Database error")
     ELSE IF reply.data = <<>> \/ reply.data[1].long_url = ""
     THEN GetAnswer(q1, 404, "Short URL not found")
     ELSE IF ~UrlWellFormed(reply.data[1].long_url)
     THEN GetAnswer(q1, 500, "Invalid destination URL")
     ELSE [GetAnswer(q1, 307, "") EXCEPT !.location = reply.data[1].long_url]

\* GET once the query has come back (or thrown): the answer, and the increment
\* dispatched, not awaited, before a redirect
getAfterSelect(q, reply, threw) ==
  LET q1 == getQueried(q, reply, threw)
  IN IF threw THEN GetAnswer(q1, 500, "Internal Server Error")
     ELSE IF reply.error # ""
     THEN IF reply.error = "PGRST116" THEN GetAnswer(q1, 404, "Short URL not found")
          ELSE GetAnswer(q1, 500, "Database error")
     ELSE IF reply.data = <<>> \/ reply.data[1].long_url = ""
     THEN GetAnswer(q1, 404, "Short URL not found")
     ELSE IF ~UrlWellFormed(reply.data[1].long_url)
     THEN GetAnswer(q1, 500, "Invalid destination URL")
     ELSE [GetAnswer(q1, 307, "")
             EXCEPT !.location = reply.data[1].long_url, !.inc = "pending"]

\* an increment whose failure replaces the answer by a 500
afterIncrement_FailsRequest(q, outcome) ==
  IF outcome = "applied" THEN [q EXCEPT !.inc = outcome]
  ELSE [q EXCEPT !.inc = outcome, !.status = 500, !.location = "",
                 !.error = "Internal Server Error"]

\* the request once the rpc of its increment has ended: a failure is logged, the
\* answer has been given
afterIncrement(q, outcome) == [q EXCEPT !.inc = outcome]

(***************************************************************************)
(* State.                                                                  *)
(***************************************************************************)
VARIABLES
  now,              \* Date.now(), in ms
  circuitBreaker,   \* SafeBrowsingClient.circuitBreaker
  rateLimitInfo,    \* SafeBrowsingClient.rateLimitInfo
  inflight,         \* checkUrls calls suspended at an await, by stage
  ev,               \* the last step of the client: what it was, and the records before it
  streak,           \* failed checkUrls calls since the last successful one
  responsesInWindow, \* upstream responses received since the rate-limit window was last reset
  supabaseAdmin,    \* the service-role store client exists (supabase.ts: supabaseAdmin # null)
  gen,              \* a generateUniqueShortCode call: its locals and position
  genLog,           \* what that call has generated, asked and been answered so far
  links,            \* the table public.links
  reqs,             \* the POST /api/shorten requests being served, and their answers
  rateLimitMap,     \* route.ts: rateLimitMap
  posts,            \* POST requests received so far
  getReqs,          \* the GET /[shortId] requests being served, and their answers
  getCount,         \* GET requests received so far
  verifiedAt,       \* when a check of the audited URL last succeeded: {} or {time}
  wasted,           \* dispatched calls that failed since the breaker was last CLOSED at 0
  apiKey,           \* process.env.GOOGLE_SAFE_BROWSING_API_KEY ("" when unset)
  clientInstance,   \* safeBrowsingClient.ts: clientInstance, {} for null or {reference}
  instances,        \* the SafeBrowsingClient objects constructed, by reference
  refs,             \* what the getSafeBrowsingClient calls returned, in order
  fn                \* the function call under observation: its name, arguments, result

clientVars ==
  <<now, circuitBreaker, rateLimitInfo, inflight, ev, streak, responsesInWindow>>

\* the inputs tried: no URL, one sample URL (not a string, empty, blank, without
\* scheme, well formed), two well-formed URLs, and 501 URLs
TooManyUrls == [i \in 1..(MAX_URLS_PER_REQUEST + 1) |-> "https://safe.example"]

InputLists ==
  {<<>>, TooManyUrls}
    \cup {<<u>> : u \in {"null", "", "  ", "example.com", "https://safe.example"}}
    \cup {<<"https://safe.example", "http://evil.example">>}

InFlightTotal == inflight.fetch + inflight.bodyOk + inflight.bodyErr

Event(type, code, sent, n, sanErr) ==
  [type |-> type, code |-> code, sent |-> sent, n |-> n, sanErr |-> sanErr,
   blank |-> FALSE, at |-> now, cb0 |-> circuitBreaker, rl0 |-> rateLimitInfo,
   fl0 |-> InFlightTotal]

genVars == <<supabaseAdmin, gen, genLog>>

createVars == <<links, reqs, rateLimitMap, posts>>

resolveVars == <<getReqs, getCount>>

auditVars == <<verifiedAt, wasted>>

singletonVars == <<apiKey, clientInstance, instances, refs>>

pureVars == <<fn>>

vars ==
  <<clientVars, genVars, createVars, resolveVars, auditVars, singletonVars, pureVars>>

\* the other flows, for the actions of the flow a specification runs

restVars == <<auditVars, singletonVars, pureVars>>

NoWaste == [n |-> 0, stale |-> 0, counting |-> TRUE]

\* the audit at rest, for the specifications that do not run it
AuditParked ==
  /\ verifiedAt = {}
  /\ wasted = NoWaste

\* the module before any getSafeBrowsingClient call, for the specifications that
\* do not call it
SingletonParked ==
  /\ apiKey = ""
  /\ clientInstance = {}
  /\ instances = <<>>
  /\ refs = <<>>

\* no pure function under test, for the specifications that call none
PureParked == fn = [op |-> "none"]

RestParked == AuditParked /\ SingletonParked /\ PureParked

GetRequests == 1..NumGets

\* the resolve flow at rest, for the specifications that do not run it
ResolveParked ==
  /\ getReqs = [r \in GetRequests |-> IdleGet]
  /\ getCount = 0

Requests == 1..NumRequests

\* the create flow at rest, for the specifications that do not run it
CreateParked ==
  /\ links = <<>>
  /\ reqs = [r \in Requests |-> IdleRequest]
  /\ rateLimitMap = <<>>
  /\ posts = 0

EmptyGenLog ==
  [generated |-> 0, queries |-> 0, replies |-> 0, rows |-> 0, failAt |-> 0,
   lastReply |-> "", lastGenerated |-> <<>>]

\* the generator at rest, for the specifications that do not run it
GenParked ==
  /\ supabaseAdmin = TRUE
  /\ gen = GenIdle
  /\ genLog = EmptyGenLog

ClientInit ==
  /\ now = 0
  /\ circuitBreaker = InitialCircuitBreaker
  /\ rateLimitInfo = InitialRateLimitInfo(0)
  /\ inflight = [fetch |-> 0, bodyOk |-> 0, bodyErr |-> 0]
  /\ ev = [type |-> "init", code |-> "", sent |-> FALSE, n |-> 0, sanErr |-> "",
           blank |-> FALSE,
           at |-> 0, cb0 |-> InitialCircuitBreaker, rl0 |-> InitialRateLimitInfo(0),
           fl0 |-> 0]
  /\ streak = 0
  /\ responsesInWindow = 0

(***************************************************************************)
(* checkUrls(urls), from its entry to the first await: the input checks,   *)
(* the breaker, the rate limiter, sanitization, and (when none throws)     *)
(* the dispatch of fetch() in makeApiCall.                                 *)
(***************************************************************************)
CheckUrls(urls) ==
  LET r == checkUrlsEntry(urls, circuitBreaker, rateLimitInfo, now)
  IN /\ r.err = "" => InFlightTotal < MaxInFlight
     /\ circuitBreaker' = r.cb
     /\ inflight' = IF r.err = "" THEN [inflight EXCEPT !.fetch = @ + 1] ELSE inflight
     /\ ev' = [Event("begin", r.err, r.err = "", Len(urls),
                      IF Len(urls) \in 1..MAX_URLS_PER_REQUEST
                      THEN firstSanitizeError(urls) ELSE "")
                  EXCEPT !.blank = Len(urls) <= MAX_URLS_PER_REQUEST /\ HasBlankUrl(urls)]
     /\ UNCHANGED <<now, rateLimitInfo, streak, responsesInWindow>>

\* the catch block of checkUrls: handleCircuitBreakerFailure, then the error is thrown
CallFails(code) ==
  /\ circuitBreaker' = handleCircuitBreakerFailure(circuitBreaker, now)
  /\ ev' = Event("failure", code, FALSE, 0, "")
  /\ streak' = streak + 1

\* fetch() rejects: a network error, or the AbortSignal.timeout of makeApiCall
FetchRejects ==
  /\ inflight.fetch > 0
  /\ inflight' = [inflight EXCEPT !.fetch = @ - 1]
  /\ CallFails("API_ERROR")
  /\ UNCHANGED <<now, rateLimitInfo, responsesInWindow>>

\* fetch() resolves with a response: updateRateLimitInfo, then the body is awaited
\* (response.text() when !response.ok, response.json() otherwise)
ResponseArrives(ok) ==
  /\ inflight.fetch > 0
  /\ inflight' = IF ok THEN [inflight EXCEPT !.fetch = @ - 1, !.bodyOk = @ + 1]
                 ELSE [inflight EXCEPT !.fetch = @ - 1, !.bodyErr = @ + 1]
  /\ rateLimitInfo' = updateRateLimitInfo(rateLimitInfo, now)
  /\ responsesInWindow' = IF now > rateLimitInfo.resetTime THEN 0 ELSE responsesInWindow + 1
  /\ ev' = Event("response", "", FALSE, 0, "")
  /\ UNCHANGED <<now, circuitBreaker, streak>>

\* a non-2xx response: its text is read (or reading it fails) and the call throws
ErrorBodyRead ==
  /\ inflight.bodyErr > 0
  /\ inflight' = [inflight EXCEPT !.bodyErr = @ - 1]
  /\ CallFails("API_REQUEST_FAILED")
  /\ UNCHANGED <<now, rateLimitInfo, responsesInWindow>>

\* a 2xx response whose body cannot be read or parsed: json() rejects or parseResponse throws
BodyUnreadable ==
  /\ inflight.bodyOk > 0
  /\ inflight' = [inflight EXCEPT !.bodyOk = @ - 1]
  /\ CallFails("API_ERROR")
  /\ UNCHANGED <<now, rateLimitInfo, responsesInWindow>>

\* a 2xx response parsed: resetCircuitBreaker, the results are returned
CallSucceeds ==
  /\ inflight.bodyOk > 0
  /\ inflight' = [inflight EXCEPT !.bodyOk = @ - 1]
  /\ circuitBreaker' = resetCircuitBreaker(circuitBreaker)
  /\ ev' = Event("success", "", FALSE, 0, "")
  /\ streak' = 0
  /\ UNCHANGED <<now, rateLimitInfo, responsesInWindow>>

\* time passes
Tick ==
  /\ now < MaxTicks * TickMs
  /\ now' = now + TickMs
  /\ ev' = Event("tick", "", FALSE, 0, "")
  /\ UNCHANGED <<circuitBreaker, rateLimitInfo, inflight, streak, responsesInWindow>>

ClientNext ==
  \/ \E urls \in InputLists : CheckUrls(urls)
  \/ FetchRejects
  \/ \E ok \in BOOLEAN : ResponseArrives(ok)
  \/ ErrorBodyRead
  \/ BodyUnreadable
  \/ CallSucceeds
  \/ Tick

\* the client after construction; the generator and the create flow at rest
ClientSpecInit == ClientInit /\ GenParked /\ CreateParked /\ ResolveParked /\ RestParked

ClientSpec ==
  ClientSpecInit /\ [][ClientNext /\ UNCHANGED <<genVars, createVars, resolveVars, restVars>>]_vars

(***************************************************************************)
(* generateUniqueShortCode on its own, against a store that may answer     *)
(* anything: the configuration is drawn in the initial state.              *)
(***************************************************************************)
GenLengths == (MIN_CODE_LENGTH - 1)..(MAX_CODE_LENGTH + 1)

\* maxRetries: 0..GenMaxRetries, the default 10, and 101
GenRetries == 0..GenMaxRetries \cup {MAX_RETRY_ATTEMPTS, MAX_RETRIES_ALLOWED + 1}

\* the client at rest, for the specifications that do not run it
ClientParked == ClientInit

GenInit ==
  /\ supabaseAdmin \in BOOLEAN
  /\ gen \in {[GenIdle EXCEPT !.length = l, !.maxRetries = m] :
                l \in GenLengths, m \in GenRetries}
  /\ genLog = EmptyGenLog

\* the log after a step that took the call from g to g1
Logged(g1, reply) ==
  LET asked == g1.pc = "query"
      failed == reply \in {"noclient", "dberror", "rejected"}
  IN [generated |-> genLog.generated + (IF asked THEN 1 ELSE 0),
      queries |-> genLog.queries + (IF asked /\ supabaseAdmin THEN 1 ELSE 0),
      replies |-> genLog.replies + (IF reply = "" THEN 0 ELSE 1),
      rows |-> genLog.rows + (IF reply = "row" THEN 1 ELSE 0),
      failAt |-> IF genLog.failAt = 0 /\ failed THEN gen.attempts ELSE genLog.failAt,
      lastReply |-> reply,
      lastGenerated |-> IF asked THEN g1.shortCode ELSE genLog.lastGenerated]

\* generateUniqueShortCode(config) is called
GenCall(pair) ==
  /\ gen.pc = "idle"
  /\ gen' = genEnter(gen.length, gen.maxRetries, pair)
  /\ genLog' = Logged(gen', "")
  /\ UNCHANGED <<supabaseAdmin, clientVars, createVars, resolveVars, restVars>>

\* the await of isCodeExists ends, with the store's reply (none without a client)
GenReply(reply, pair) ==
  /\ gen.pc = "query"
  /\ gen' = genOnReply(gen, supabaseAdmin, reply, pair)
  /\ genLog' = Logged(gen', IF supabaseAdmin THEN reply ELSE "noclient")
  /\ UNCHANGED <<supabaseAdmin, clientVars, createVars, resolveVars, restVars>>

GenNext ==
  \/ \E pair \in BytePairs : GenCall(pair)
  \/ \E reply \in StoreReplies, pair \in BytePairs : GenReply(reply, pair)

GenSpecInit == ClientParked /\ CreateParked /\ ResolveParked /\ RestParked /\ GenInit

GenSpec == GenSpecInit /\ [][GenNext]_vars

(***************************************************************************)
(* The create flow: concurrent POST /api/shorten requests over one store.  *)
(***************************************************************************)
\* rateLimitMap when the proxied client has sent all but one of the requests it is
\* allowed in the window that began at time 0 (each of them answered 400)
BusyRateLimitMap ==
  [ip \in {"203.0.113.7"} |->
     [count |-> RATE_LIMIT_MAX_REQUESTS - 1, resetTime |-> RATE_LIMIT_WINDOW]]

CreateInit ==
  /\ supabaseAdmin \in BOOLEAN
  /\ gen = GenIdle
  /\ genLog = EmptyGenLog
  /\ links = <<>>
  /\ reqs = [r \in Requests |-> IdleRequest]
  /\ rateLimitMap \in {<<>>, BusyRateLimitMap}
  /\ posts = 0

\* a request arrives and runs to its first await on the store, or to its answer
PostReceive(r, h, originHeader, body, pair) ==
  LET rl == isRateLimited(rateLimitMap, getClientIP(h), now)
  IN /\ r = posts + 1
     /\ reqs[r].pc = "idle"
     /\ posts' = posts + 1
     /\ rateLimitMap' = rl.map
     /\ reqs' = [reqs EXCEPT ![r] =
                   IF rl.limited THEN Answer(IdleRequest, 429, "Rate limit exceeded")
                   ELSE postEnter(body, originHeader, supabaseAdmin, pair)]
     /\ UNCHANGED <<links, clientVars, genVars, resolveVars, restVars>>

\* the existence query of isCodeExists comes back: with what the table holds, or
\* with a store fault
PostExistsReply(r, fault, pair) ==
  LET q == reqs[r]
      reply == IF fault # "" THEN fault
               ELSE IF HasCode(links, q.g.shortCode) THEN "row" ELSE "notfound"
  IN /\ q.pc = "query"
     /\ reqs' = [reqs EXCEPT ![r] =
                   postGenerating([q EXCEPT !.g = genOnReply(q.g, supabaseAdmin, reply, pair)])]
     /\ UNCHANGED <<links, rateLimitMap, posts, clientVars, genVars, resolveVars, restVars>>

\* the store executes the insert and answers; or the store fails
PostInsertReply(r, fault) ==
  LET q == reqs[r]
      res == IF fault # "" THEN [error |-> fault, links |-> links]
             ELSE insertLink(links, q.shortCode, q.url)
  IN /\ q.pc = "insert"
     /\ links' = res.links
     /\ reqs' = [reqs EXCEPT ![r] = postAfterInsert(q, res.error)]
     /\ UNCHANGED <<rateLimitMap, posts, clientVars, genVars, resolveVars, restVars>>

\* the requests of this specification come from one client behind a proxy, and
\* draw their codes from two samples, so that two requests can draw the same code
CreateIpHeaders == {h \in IpHeaders : h.forwarded # ""}

CreateBytePairs == {pair \in BytePairs : pair[1] \in {0, 255}}

\* the store's faults here are an error object on the existence query ("dberror")
\* and an error on the insert; a query that throws is exercised in GenSpec
CreateNext ==
  \/ \E r \in Requests, h \in CreateIpHeaders, o \in OriginHeaders,
        body \in CreateUrls \cup {BadJson}, pair \in CreateBytePairs :
          PostReceive(r, h, o, body, pair)
  \/ \E r \in Requests, fault \in {"", "dberror"}, pair \in CreateBytePairs :
          PostExistsReply(r, fault, pair)
  \/ \E r \in Requests, fault \in {"", "store error"} : PostInsertReply(r, fault)

CreateSpecInit == ClientParked /\ ResolveParked /\ RestParked /\ CreateInit

CreateSpec == CreateSpecInit /\ [][CreateNext]_vars

(***************************************************************************)
(* The create endpoint's limiter: POST requests of two clients, one after  *)
(* the other, while time passes.  fn records the last request's pass       *)
(* through isRateLimited and, for each client, the window it is in: the    *)
(* time of the admitted request that began it, the requests admitted in it *)
(* and whether one was refused in it.                                      *)
(***************************************************************************)
RateIps == { getClientIP(h) : h \in IpHeaders }

\* bound: the requests of the second client, the one without proxy headers
MaxOtherPosts == 2

\* the codes drawn here are all the same one
RateBytePairs == { <<0, 0>> }

NoWindow == [start |-> 0, count |-> 0, denied |-> FALSE]

\* the window w is running at time t
InWindow(w, t) == w.count > 0 /\ t <= w.start + RATE_LIMIT_WINDOW

RateIdle ==
  [op |-> "isRateLimited", calls |-> 0, others |-> 0, ip |-> "", at |-> 0,
   limited |-> FALSE,
   map0 |-> <<>>, links0 |-> <<>>,
   win0 |-> [ip \in RateIps |-> NoWindow], win |-> [ip \in RateIps |-> NoWindow]]

\* the windows after a request of ip at time t that was refused or admitted
Windows(win, ip, t, limited) ==
  [win EXCEPT ![ip] =
     IF limited THEN [@ EXCEPT !.denied = TRUE]
     ELSE IF InWindow(@, t) THEN [@ EXCEPT !.count = @ + 1]
     ELSE [start |-> t, count |-> 1, denied |-> FALSE]]

RateInit ==
  /\ supabaseAdmin = TRUE
  /\ gen = GenIdle
  /\ genLog = EmptyGenLog
  /\ links = <<>>
  /\ reqs = [r \in Requests |-> IdleRequest]
  /\ rateLimitMap = <<>>
  /\ posts = 0
  /\ fn = RateIdle

RateFrame == UNCHANGED <<genVars, resolveVars, auditVars, singletonVars>>

RateClientFrame ==
  UNCHANGED <<circuitBreaker, rateLimitInfo, inflight, ev, streak, responsesInWindow>>

\* a request arrives once the one before is answered, and runs to its first await
\* on the store, or to its answer
RatePost(h, body, pair) ==
  LET ip == getClientIP(h)
      rl == isRateLimited(rateLimitMap, ip, now)
  IN /\ reqs[1].pc \in {"idle", "done"}
     /\ h.forwarded = "" => fn.others < MaxOtherPosts
     /\ rateLimitMap' = rl.map
     /\ reqs' = [reqs EXCEPT ![1] =
                   IF rl.limited THEN Answer(IdleRequest, 429, "Rate limit exceeded")
                   ELSE postEnter(body, "", supabaseAdmin, pair)]
     /\ fn' = [fn EXCEPT !.calls = 1, !.ip = ip,
                         !.others = IF h.forwarded = "" THEN @ + 1 ELSE @, !.at = now, !.limited = rl.limited,
                         !.map0 = rateLimitMap, !.links0 = links, !.win0 = fn.win,
                         !.win = Windows(fn.win, ip, now, rl.limited)]
     /\ UNCHANGED <<now, links, posts>> /\ RateClientFrame /\ RateFrame

RateExistsReply(pair) ==
  LET q == reqs[1]
      reply == IF HasCode(links, q.g.shortCode) THEN "row" ELSE "notfound"
  IN /\ q.pc = "query"
     /\ reqs' = [reqs EXCEPT ![1] =
                   postGenerating([q EXCEPT !.g = genOnReply(q.g, supabaseAdmin, reply, pair)])]
     /\ UNCHANGED <<now, links, rateLimitMap, posts, pureVars>>
     /\ RateClientFrame /\ RateFrame

RateInsertReply ==
  LET q == reqs[1]
      res == insertLink(links, q.shortCode, q.url)
  IN /\ q.pc = "insert"
     /\ links' = res.links
     /\ reqs' = [reqs EXCEPT ![1] = postAfterInsert(q, res.error)]
     /\ UNCHANGED <<now, rateLimitMap, posts, pureVars>>
     /\ RateClientFrame /\ RateFrame

\* time passes
RateTick ==
  /\ now < MaxTicks * TickMs
  /\ now' = now + TickMs
  /\ UNCHANGED <<createVars, pureVars>> /\ RateClientFrame /\ RateFrame

RateNext ==
  \/ \E h \in IpHeaders, body \in {"", "https://safe.example/page"},
        pair \in RateBytePairs : RatePost(h, body, pair)
  \/ \E pair \in RateBytePairs : RateExistsReply(pair)
  \/ RateInsertReply
  \/ RateTick

RateSpecInit == ClientInit /\ ResolveParked /\ AuditParked /\ SingletonParked /\ RateInit

RateSpec == RateSpecInit /\ [][RateNext]_vars

(***************************************************************************)
(* The resolve flow: concurrent GET /[shortId] requests over one table.    *)
(***************************************************************************)
ResolveInit ==
  /\ supabaseAdmin \in BOOLEAN
  /\ gen = GenIdle
  /\ genLog = EmptyGenLog
  /\ links = StoredLinks
  /\ reqs = [r \in Requests |-> IdleRequest]
  /\ rateLimitMap = <<>>
  /\ posts = 0
  /\ ResolveParked

\* a request arrives and runs to the await of the query, or to its answer
GetReceive(r, shortId) ==
  /\ r = getCount + 1
  /\ getReqs[r].pc = "idle"
  /\ getCount' = getCount + 1
  /\ getReqs' = [getReqs EXCEPT ![r] = getEnter(shortId, supabaseAdmin)]
  /\ UNCHANGED <<clientVars, genVars, createVars, restVars>>

\* the query comes back: with what the table holds, with {data: null, error: null}
\* ("empty"), with an error object ("dberror"), or it throws ("rejected"); the
\* request is answered, and before a redirect the increment is dispatched
GetSelectReply(r, fault) ==
  LET q == getReqs[r]
      reply == CASE fault = "" -> selectLink(links, q.shortId)
                 [] fault = "dberror" -> [data |-> <<>>, error |-> "XX000"]
                 [] OTHER -> [data |-> <<>>, error |-> ""]
  IN /\ q.pc = "select"
     /\ getReqs' = [getReqs EXCEPT ![r] = getAfterSelect(q, reply, fault = "rejected")]
     /\ UNCHANGED <<getCount, clientVars, genVars, createVars, restVars>>

\* the rpc of a dispatched increment ends: the UPDATE has run ("applied"), the
\* store has returned an error ("error"), or the call has thrown ("threw")
GetIncrementEnds(r, outcome) ==
  /\ getReqs[r].inc = "pending"
  /\ getReqs' = [getReqs EXCEPT ![r] = afterIncrement(getReqs[r], outcome)]
  /\ links' = IF outcome = "applied"
              THEN increment_click_count(links, getReqs[r].shortId)
              ELSE links
  /\ UNCHANGED <<getCount, clientVars, genVars, reqs, rateLimitMap, posts, restVars>>

ResolveNext ==
  \/ \E r \in GetRequests, shortId \in ShortIds : GetReceive(r, shortId)
  \/ \E r \in GetRequests, fault \in {"", "empty", "dberror", "rejected"} :
        GetSelectReply(r, fault)
  \/ \E r \in GetRequests, outcome \in {"applied", "error", "threw"} :
        GetIncrementEnds(r, outcome)

ResolveSpecInit == ClientParked /\ RestParked /\ ResolveInit

ResolveSpec == ResolveSpecInit /\ [][ResolveNext]_vars

(***************************************************************************)
(* The link store under both flows: POST and GET requests, concurrent,     *)
(* over one table that starts empty.  The codes the generator draws here   *)
(* are CodeStored and CodeMalformed; the GET requests ask for the first,   *)
(* before or after it is stored.  The store answers every query.           *)
(***************************************************************************)
StoreInit ==
  /\ supabaseAdmin = TRUE
  /\ gen = GenIdle
  /\ genLog = EmptyGenLog
  /\ links = <<>>
  /\ reqs = [r \in Requests |-> IdleRequest]
  /\ rateLimitMap = <<>>
  /\ posts = 0
  /\ ResolveParked

StoreShortIds == {CodeStored}

StoreNext ==
  \/ \E r \in Requests, h \in CreateIpHeaders, pair \in CreateBytePairs :
        PostReceive(r, h, "", "https://safe.example/page", pair)
  \/ \E r \in Requests, pair \in CreateBytePairs : PostExistsReply(r, "", pair)
  \/ \E r \in Requests : PostInsertReply(r, "")
  \/ \E r \in GetRequests, shortId \in StoreShortIds : GetReceive(r, shortId)
  \/ \E r \in GetRequests : GetSelectReply(r, "")
  \/ \E r \in GetRequests : GetIncrementEnds(r, "applied")

StoreSpecInit == ClientParked /\ RestParked /\ StoreInit

StoreSpec == StoreSpecInit /\ [][StoreNext]_vars

(***************************************************************************)
(* The Threat-Check Client audited: every call checks the same URL, and    *)
(* two records are kept beside the client's state: when a check of the URL *)
(* last succeeded, and how many dispatched calls have failed since the     *)
(* breaker was last CLOSED with failureCount 0.                            *)
(***************************************************************************)
\* the time-to-live of a cached result (docs/architecture.md: 24 hours)
CACHE_TTL_MS == 86400000

\* one URL, as submitted and with the white space sanitizeUrl trims
AuditInputs == { <<"https://safe.example">>, <<" https://safe.example ">> }

\* a dispatched call has failed.  It counts when it was dispatched since the
\* breaker was last CLOSED at 0 and before the breaker left OPEN: while calls
\* dispatched earlier are in flight (stale) the failure is taken to be one of theirs
CountFailure(w) ==
  IF ~w.counting THEN w
  ELSE IF w.stale > 0 THEN [w EXCEPT !.stale = @ - 1]
  ELSE [w EXCEPT !.n = @ + 1]

\* the flows an audited step leaves alone
AuditFrame == UNCHANGED <<genVars, createVars, resolveVars, singletonVars, pureVars>>

AuditCheckUrls(urls) ==
  /\ CheckUrls(urls)
  /\ wasted' = IF circuitBreaker.state = "OPEN" /\ circuitBreaker'.state = "HALF_OPEN"
               THEN [wasted EXCEPT !.counting = FALSE]
               ELSE wasted
  /\ UNCHANGED verifiedAt
  /\ AuditFrame

AuditFetchRejects ==
  /\ FetchRejects
  /\ wasted' = CountFailure(wasted)
  /\ UNCHANGED verifiedAt
  /\ AuditFrame

AuditResponseArrives(ok) ==
  /\ ResponseArrives(ok)
  /\ UNCHANGED auditVars
  /\ AuditFrame

AuditErrorBodyRead ==
  /\ ErrorBodyRead
  /\ wasted' = CountFailure(wasted)
  /\ UNCHANGED verifiedAt
  /\ AuditFrame

AuditBodyUnreadable ==
  /\ BodyUnreadable
  /\ wasted' = CountFailure(wasted)
  /\ UNCHANGED verifiedAt
  /\ AuditFrame

\* a call succeeds: the URL is verified now, and the breaker is CLOSED at 0, the
\* calls still in flight having been dispatched before this moment
AuditCallSucceeds ==
  /\ CallSucceeds
  /\ verifiedAt' = {now}
  /\ wasted' = [n |-> 0, stale |-> InFlightTotal - 1, counting |-> TRUE]
  /\ AuditFrame

AuditTick ==
  /\ Tick
  /\ UNCHANGED auditVars
  /\ AuditFrame

AuditNext ==
  \/ \E urls \in AuditInputs : AuditCheckUrls(urls)
  \/ AuditFetchRejects
  \/ \E ok \in BOOLEAN : AuditResponseArrives(ok)
  \/ AuditErrorBodyRead
  \/ AuditBodyUnreadable
  \/ AuditCallSucceeds
  \/ AuditTick

AuditSpecInit ==
  ClientInit /\ GenParked /\ CreateParked /\ ResolveParked /\ RestParked

AuditSpec == AuditSpecInit /\ [][AuditNext]_vars

(***************************************************************************)
(* getSafeBrowsingClient: the module-level clientInstance, the objects     *)
(* constructed (a heap indexed by reference) and the references returned.  *)
(***************************************************************************)
\* bound: getSafeBrowsingClient calls in a run
MaxGetCalls == 3

\* process.env.GOOGLE_SAFE_BROWSING_API_KEY: unset, blank, set
EnvKeys == { "", "  ", "test-key" }

\* createSafeBrowsingClient on a heap: [threw |-> code or "", ref |-> {} or {the
\* new reference}, instances |-> the heap afterwards].  A blank key passes the
\* factory's test and fails validateConfig in the constructor
createSafeBrowsingClient(key, heap, t) ==
  IF key = "" \/ Trim(key) = ""
  THEN [threw |-> "MISSING_API_KEY", ref |-> {}, instances |-> heap]
  ELSE [threw |-> "", ref |-> {Len(heap) + 1},
        instances |-> Append(heap, [circuitBreaker |-> InitialCircuitBreaker,
                                    rateLimitInfo |-> InitialRateLimitInfo(t)])]

\* a getSafeBrowsingClient that constructs a client on every call
getSafeBrowsingClient_AlwaysCreates(inst, key, heap, t) ==
  LET c == createSafeBrowsingClient(key, heap, t)
  IN [threw |-> c.threw, clientInstance |-> IF c.threw = "" THEN c.ref ELSE inst,
      instances |-> c.instances, returned |-> c.ref]

\* getSafeBrowsingClient: [threw, clientInstance afterwards, instances afterwards,
\* returned |-> {the reference returned} or {} when it threw]
getSafeBrowsingClient(inst, key, heap, t) ==
  IF inst = {}
  THEN LET c == createSafeBrowsingClient(key, heap, t)
       IN [threw |-> c.threw, clientInstance |-> c.ref,
           instances |-> c.instances, returned |-> c.ref]
  ELSE [threw |-> "", clientInstance |-> inst, instances |-> heap, returned |-> inst]

\* the target of a reference
Deref(ref) == CHOOSE i \in ref : TRUE

SingletonFrame ==
  UNCHANGED <<clientVars, genVars, createVars, resolveVars, auditVars, pureVars>>

SingletonInit ==
  /\ apiKey \in EnvKeys
  /\ clientInstance = {}
  /\ instances = <<>>
  /\ refs = <<>>

\* the environment variable is set, blanked or unset
SetApiKey(key) ==
  /\ apiKey # key
  /\ apiKey' = key
  /\ UNCHANGED <<clientInstance, instances, refs>>
  /\ SingletonFrame

\* a caller calls getSafeBrowsingClient() and keeps what it returns
GetClient ==
  LET g == getSafeBrowsingClient(clientInstance, apiKey, instances, now)
  IN /\ Len(refs) < MaxGetCalls
     /\ clientInstance' = g.clientInstance
     /\ instances' = g.instances
     /\ refs' = Append(refs, g.returned)
     /\ UNCHANGED apiKey
     /\ SingletonFrame

\* the k-th caller's client counts a failed call (the catch block of checkUrls)
UseFails(k) ==
  /\ k \in DOMAIN refs /\ refs[k] # {}
  /\ instances[Deref(refs[k])].circuitBreaker.failureCount < FAILURE_THRESHOLD
  /\ instances' = [instances EXCEPT ![Deref(refs[k])].circuitBreaker =
                     handleCircuitBreakerFailure(@, now)]
  /\ UNCHANGED <<apiKey, clientInstance, refs>>
  /\ SingletonFrame

\* the k-th caller's client receives a response (updateRateLimitInfo)
UseResponse(k) ==
  /\ k \in DOMAIN refs /\ refs[k] # {}
  /\ instances[Deref(refs[k])].rateLimitInfo.remaining > 0
  /\ instances' = [instances EXCEPT ![Deref(refs[k])].rateLimitInfo =
                     updateRateLimitInfo(@, now)]
  /\ UNCHANGED <<apiKey, clientInstance, refs>>
  /\ SingletonFrame

SingletonNext ==
  \/ \E key \in EnvKeys : SetApiKey(key)
  \/ GetClient
  \/ \E k \in 1..MaxGetCalls : UseFails(k)
  \/ \E k \in 1..MaxGetCalls : UseResponse(k)

SingletonSpecInit ==
  /\ ClientInit /\ GenParked /\ CreateParked /\ ResolveParked
  /\ AuditParked /\ PureParked /\ SingletonInit

SingletonSpec == SingletonSpecInit /\ [][SingletonNext]_vars

(***************************************************************************)
(* Pure functions, each called once on arguments drawn in the initial      *)
(* state.                                                                  *)
(***************************************************************************)
\* the other flows at rest
PureFrame ==
  UNCHANGED <<clientVars, genVars, createVars, resolveVars, auditVars, singletonVars>>

PureRest ==
  /\ ClientInit /\ GenParked /\ CreateParked /\ ResolveParked
  /\ AuditParked /\ SingletonParked

\* parseResponse on 1..MaxParseLen sanitized URLs and a response of up to
\* MaxParseLen matches, or without matches ("missing")
ParseInit ==
  /\ fn \in [op : {"parseResponse"}, urls : SeqsOf(ParseUrls, 1, MaxParseLen),
             matches : SeqsOf(ParseMatches, 0, MaxParseLen), missing : BOOLEAN,
             done : {FALSE}, out : {<<>>}]
  /\ fn.missing => fn.matches = <<>>

ParseCall ==
  /\ fn.op = "parseResponse" /\ ~fn.done
  /\ fn' = [fn EXCEPT !.done = TRUE, !.out = parseResponse(fn.urls, fn.matches)]
  /\ PureFrame

ParseSpecInit == PureRest /\ ParseInit

ParseSpec == ParseSpecInit /\ [][ParseCall]_vars

\* the bytes crypto.randomBytes may return, on samples: a code's characters are
\* computed from the pairs <<high, low>> one by one
RandBytes == {0, 1, 61, 62, 255}

RandPairs == RandBytes \X RandBytes

\* generateRandomCode on the lengths 3..9 and a pair of random bytes
RandInit ==
  fn \in [op : {"generateRandomCode"}, length : GenLengths, pair : RandPairs,
          done : {FALSE}, out : {[err |-> "", code |-> <<>>]}]

RandCall ==
  /\ fn.op = "generateRandomCode" /\ ~fn.done
  /\ fn' = [fn EXCEPT !.done = TRUE, !.out = generateRandomCode(fn.length, fn.pair)]
  /\ PureFrame

RandSpecInit == PureRest /\ RandInit

RandSpec == RandSpecInit /\ [][RandCall]_vars

\* isValidShortCodeFormat on the values that are not strings and on the strings
\* of 0..MAX_CODE_LENGTH + 1 characters over 'A', '9' and one character outside
\* the alphabet; and on the code a successful generateUniqueShortCode returned
FormatChars == {0, CHARACTER_SET_LENGTH - 1, CHARACTER_SET_LENGTH}

FormatInputs ==
  NonStrings \cup { Str(c) : c \in SeqsOf(FormatChars, 0, MAX_CODE_LENGTH + 1) }

FormatIdle == [op |-> "isValidShortCodeFormat", done |-> FALSE, out |-> FALSE,
               generated |-> FALSE, value |-> Str(<<>>)]

FormatInit ==
  \/ /\ fn \in { [FormatIdle EXCEPT !.value = v] : v \in FormatInputs }
     /\ GenParked
  \/ /\ fn = [FormatIdle EXCEPT !.generated = TRUE]
     /\ GenInit

FormatFrame == UNCHANGED <<clientVars, createVars, resolveVars, auditVars, singletonVars>>

FormatCall ==
  /\ ~fn.generated /\ ~fn.done
  /\ fn' = [fn EXCEPT !.done = TRUE, !.out = isValidShortCodeFormat(fn.value)]
  /\ UNCHANGED genVars /\ FormatFrame

\* the shortCode of a successful result is validated
FormatGenerated ==
  /\ fn.generated /\ ~fn.done
  /\ gen.pc = "done" /\ gen.result.success
  /\ fn' = [fn EXCEPT !.done = TRUE, !.value = Str(gen.result.shortCode),
                       !.out = isValidShortCodeFormat(Str(gen.result.shortCode))]
  /\ UNCHANGED genVars /\ FormatFrame

FormatGenCall(pair) ==
  /\ fn.generated /\ gen.pc = "idle"
  /\ gen' = genEnter(gen.length, gen.maxRetries, pair)
  /\ genLog' = Logged(gen', "")
  /\ UNCHANGED <<supabaseAdmin, fn>> /\ FormatFrame

FormatGenReply(reply, pair) ==
  /\ fn.generated /\ gen.pc = "query"
  /\ gen' = genOnReply(gen, supabaseAdmin, reply, pair)
  /\ genLog' = Logged(gen', IF supabaseAdmin THEN reply ELSE "noclient")
  /\ UNCHANGED <<supabaseAdmin, fn>> /\ FormatFrame

FormatNext ==
  \/ FormatCall
  \/ FormatGenerated
  \/ \E pair \in BytePairs : FormatGenCall(pair)
  \/ \E reply \in StoreReplies, pair \in BytePairs : FormatGenReply(reply, pair)

FormatSpecInit ==
  /\ ClientInit /\ CreateParked /\ ResolveParked /\ AuditParked /\ SingletonParked
  /\ FormatInit

FormatSpec == FormatSpecInit /\ [][FormatNext]_vars


(***************************************************************************)
(* Claims about the Safe Browsing client (checked under ClientSpec).       *)
(***************************************************************************)
\* the last step was the entry of a checkUrls call with 1..500 URLs
CallBegan == ev.type = "begin" /\ ev.n \in 1..MAX_URLS_PER_REQUEST

\* the breaker was OPEN and inside its cool-down when the last step started
WasOpenInCooldown ==
  ev.cb0.state = "OPEN" /\ \E n \in ev.cb0.nextAttemptTime : ev.at < n

\* the breaker was OPEN with its cool-down over when the last step started
WasOpenCooldownOver ==
  ev.cb0.state = "OPEN" /\ ~(\E n \in ev.cb0.nextAttemptTime : ev.at < n)

\* C1: once 5 checkUrls calls in a row have failed in the upstream call or the
\* response handling, the breaker is OPEN with nextAttemptTime 60 s after the last
\* failure, and every checkUrls call made while the breaker is OPEN and before
\* nextAttemptTime fails with CIRCUIT_BREAKER_OPEN and dispatches no request.
C1_OpensAfterFiveFailures ==
  /\ (ev.type = "failure" /\ streak >= FAILURE_THRESHOLD) =>
        /\ circuitBreaker.state = "OPEN"
        /\ circuitBreaker.nextAttemptTime = {ev.at + COOLDOWN_MS}
  /\ (CallBegan /\ WasOpenInCooldown) =>
        /\ ev.code = "CIRCUIT_BREAKER_OPEN"
        /\ ~ev.sent
        /\ circuitBreaker = ev.cb0

\* C1 witness: a call rejected by the breaker right after exactly 5 failures in a row
C1_Witness ==
  /\ CallBegan /\ WasOpenInCooldown
  /\ streak = FAILURE_THRESHOLD
  /\ ev.code = "CIRCUIT_BREAKER_OPEN"

C3_WindowResets ==
  (CallBegan /\ ev.at > ev.rl0.resetTime) => ev.code # "RATE_LIMIT_EXCEEDED"

\* C4 as stated: after `limit` upstream responses in one rate-limit window the
\* next checkUrls call fails with RATE_LIMIT_EXCEEDED and dispatches nothing.
C4_Original ==
  (CallBegan /\ responsesInWindow >= Limit) =>
     ev.code = "RATE_LIMIT_EXCEEDED" /\ ~ev.sent

\* C4 amended: after `limit` upstream responses in one rate-limit window the next
\* checkUrls call with 1..500 URLs dispatches no upstream request; it fails with
\* RATE_LIMIT_EXCEEDED, unless the breaker is OPEN inside its cool-down, in which
\* case it fails with CIRCUIT_BREAKER_OPEN.
C4_LimitThenRejected ==
  (CallBegan /\ responsesInWindow >= Limit) =>
     /\ ~ev.sent
     /\ ev.rl0.remaining = 0
     /\ ev.code = IF WasOpenInCooldown THEN "CIRCUIT_BREAKER_OPEN"
                  ELSE "RATE_LIMIT_EXCEEDED"

\* C4 witness: a call rejected by the rate limiter after `limit` responses
C4_Witness ==
  /\ CallBegan /\ responsesInWindow = Limit
  /\ ev.code = "RATE_LIMIT_EXCEEDED"
  /\ ev.at <= ev.rl0.resetTime


(***************************************************************************)
(* Claims about generateUniqueShortCode (checked under GenSpec).           *)
(***************************************************************************)
ValidGenConfig ==
  /\ gen.length \in MIN_CODE_LENGTH..MAX_CODE_LENGTH
  /\ gen.maxRetries \in 1..MAX_RETRIES_ALLOWED

\* C5 as stated: a store failure other than "not found" on attempt k (an error
\* object, a thrown or rejected query, a missing client) ends the call at once with
\* a failure reporting attempts = k, no further candidate and no further query; a
\* "not found" error code counts as "the code is free".
C5_FailFast ==
  /\ genLog.failAt > 0 =>
        /\ gen.pc = "done"
        /\ ~gen.result.success
        /\ gen.result.attempts = genLog.failAt
        /\ genLog.generated = genLog.failAt
        /\ genLog.queries <= genLog.failAt
  /\ genLog.lastReply = "notfound" => gen.pc = "done" /\ gen.result.success

\* C6: when the store reports the first N candidates as existing and the (N+1)th
\* as absent, N < maxRetries, the call returns success with attempts = N + 1 and
\* the (N+1)th candidate as shortCode.
C6_SucceedsAfterCollisions ==
  ( /\ ValidGenConfig
    /\ genLog.lastReply \in {"empty", "notfound"}
    /\ genLog.replies = genLog.rows + 1
    /\ genLog.rows < gen.maxRetries ) =>
      /\ gen.pc = "done"
      /\ gen.result.success
      /\ gen.result.attempts = genLog.rows + 1
      /\ genLog.generated = genLog.rows + 1
      /\ gen.result.shortCode = genLog.lastGenerated
      /\ Len(gen.result.shortCode) = gen.length

\* C6 witness: success on the third attempt after two collisions
C6_Witness ==
  /\ gen.pc = "done" /\ gen.result.success
  /\ genLog.rows = 2 /\ gen.result.attempts = 3
  /\ genLog.lastReply = "notfound"

\* C7: when the store reports every candidate as existing, a call with
\* maxRetries = M in 1..100 never succeeds and ends, after exactly M existence
\* queries, in a failure with attempts = M whose error names M and the collision
\* of attempt M.
C7_ExhaustsRetries ==
  ( /\ ValidGenConfig
    /\ supabaseAdmin
    /\ gen.pc # "idle"
    /\ genLog.rows = genLog.replies ) =>
      /\ ~gen.result.success
      /\ genLog.queries <= gen.maxRetries
      /\ genLog.queries = IF gen.pc = "done" THEN genLog.replies ELSE genLog.replies + 1
      /\ (gen.pc = "done") <=> (genLog.replies = gen.maxRetries)
      /\ gen.pc = "done" =>
            /\ gen.result.attempts = gen.maxRetries
            /\ genLog.queries = gen.maxRetries
            /\ gen.result.error =
                 [kind |-> "exhausted", maxRetries |-> gen.maxRetries,
                  last |-> [kind |-> "collision", attempt |-> gen.maxRetries,
                            message |-> ""]]

\* C7 witness: 10 collisions out of the default maxRetries = 10
C7_Witness ==
  /\ gen.pc = "done"
  /\ gen.maxRetries = MAX_RETRY_ATTEMPTS
  /\ genLog.rows = MAX_RETRY_ATTEMPTS
  /\ gen.result.error.kind = "exhausted"

(***************************************************************************)
(* The create flow.                                                        *)
(***************************************************************************)
\* C8: a request whose insert the store rejected on the primary key (two requests
\* passed the existence check for one code) has retried with a new code: it has
\* issued a second insert, and has not answered 500 after one insert.
C8_RetryOnConflict ==
  \A r \in Requests :
    (reqs[r].pc = "done" /\ reqs[r].conflict) =>
      (reqs[r].inserts >= 2 /\ reqs[r].status # 500)

\* C9: in every reachable state the table holds no two rows with the same
\* short_code, and no two requests answered 200 report the same shortCode.
C9_UniqueShortCodes ==
  /\ \A i, j \in DOMAIN links :
       links[i].short_code = links[j].short_code => i = j
  /\ \A r, s \in Requests :
       (reqs[r].pc = "done" /\ reqs[r].status = 200 /\
        reqs[s].pc = "done" /\ reqs[s].status = 200 /\
        reqs[r].shortCode = reqs[s].shortCode) => r = s

\* C9 witness: two requests raced on one code: both passed the existence check,
\* one stored its link and answered 200, the other's insert hit the primary key.
C9_Witness ==
  \E r, s \in Requests :
    /\ r # s
    /\ reqs[r].pc = "done" /\ reqs[r].status = 200
    /\ reqs[s].pc = "done" /\ reqs[s].conflict
    /\ Len(links) = 1 /\ links[1].short_code = reqs[r].shortCode

\* C10: a URL the threat lists flag never reaches short-code generation or the
\* insert: no request for it is inside generateUniqueShortCode or at the insert,
\* none is answered 200, and no row of the table holds it.
C10_FlaggedNeverStored ==
  /\ \A r \in Requests :
       FlaggedByUpstream(reqs[r].url) =>
         (reqs[r].pc \notin {"query", "insert"} /\ reqs[r].status # 200)
  /\ \A i \in DOMAIN links : ~FlaggedByUpstream(links[i].long_url)

\* C11: a submitted URL whose origin is the service's own origin is answered 400
\* before generation and before any write, whatever Origin header the request
\* carries: no request for such a URL is inside generateUniqueShortCode or at the
\* insert, none is answered 200, and no row of the table holds such a URL.
C11_OwnOriginRejected ==
  /\ \A r \in Requests :
       (reqs[r].url # "" /\ UrlOrigin(reqs[r].url) = ServiceOrigin) =>
         (reqs[r].pc \notin {"query", "insert"} /\ reqs[r].status # 200)
  /\ \A i \in DOMAIN links : UrlOrigin(links[i].long_url) # ServiceOrigin

\* the requests answered 200
Answered200 == {r \in Requests : reqs[r].pc = "done" /\ reqs[r].status = 200}

RedirectsFor(code) ==
  {r \in GetRequests :
     getReqs[r].pc = "done" /\ getReqs[r].status = 307 /\ getReqs[r].shortId = code}

\* C13: for every row, once every increment dispatched for its code has been
\* applied (none pending, none failed), click_count is the value it had, 0, plus
\* the number of 307 redirects issued for the code.
C13_NoLostUpdate ==
  \A i \in DOMAIN links :
    (\A r \in GetRequests :
       getReqs[r].shortId = links[i].short_code =>
         getReqs[r].inc \in {"none", "applied"}) =>
      links[i].click_count = Cardinality(RedirectsFor(links[i].short_code))

\* C13 witness: every request was redirected for the same code, each dispatched
\* its increment, and all have been applied
C13_Witness ==
  /\ \A r \in GetRequests :
       /\ getReqs[r].shortId = CodeStored
       /\ getReqs[r].status = 307
       /\ getReqs[r].inc = "applied"
  /\ links[1].click_count = NumGets

\* C14: a request that read a row with a well-formed URL is answered 307 to that
\* URL in the very step that dispatches its increment, and the answer is that same
\* 307 while the increment is pending and after it has been applied, has returned
\* an error or has thrown.
C14_RedirectNotDelayed ==
  \A r \in GetRequests :
    /\ (getReqs[r].data # <<>> /\ UrlWellFormed(getReqs[r].data[1].long_url)) =>
         /\ getReqs[r].pc = "done"
         /\ getReqs[r].status = 307
         /\ getReqs[r].location = getReqs[r].data[1].long_url
         /\ getReqs[r].inc \in {"pending", "applied", "error", "threw"}
    /\ getReqs[r].inc # "none" => (getReqs[r].pc = "done" /\ getReqs[r].status = 307)

\* C14 witness: one request has its 307 while its increment is still pending,
\* another has its 307 although its increment failed
C14_Witness ==
  \E r, s \in GetRequests :
    /\ getReqs[r].status = 307 /\ getReqs[r].inc = "pending"
    /\ getReqs[s].status = 307 /\ getReqs[s].inc \in {"error", "threw"}

\* C15: a request for a code of valid length that no row has, answered by the
\* store (not found, or no data), gets 404; and whatever the store answers it gets
\* no redirect and dispatches no increment.
C15_AbsentCode ==
  \A r \in GetRequests :
    ( /\ getReqs[r].pc = "done"
      /\ Len(getReqs[r].shortId) \in MIN_SHORT_ID_LENGTH..MAX_SHORT_ID_LENGTH
      /\ ~HasCode(links, getReqs[r].shortId) ) =>
        /\ getReqs[r].status # 307
        /\ getReqs[r].location = ""
        /\ getReqs[r].inc = "none"
        /\ (supabaseAdmin /\ getReqs[r].dbError \in {"", "PGRST116"}) =>
             getReqs[r].status = 404

\* C15 witness: the store said "not found" for an absent code and the answer is 404
C15_Witness ==
  \E r \in GetRequests :
    /\ getReqs[r].pc = "done" /\ getReqs[r].shortId = CodeAbsent
    /\ getReqs[r].dbError = "PGRST116" /\ getReqs[r].status = 404

C20_ThrottledCallLeavesNoTrace ==
  (CallBegan /\ ev.code \in {"RATE_LIMIT_EXCEEDED", "CIRCUIT_BREAKER_OPEN"}) =>
    /\ ~ev.sent
    /\ InFlightTotal = ev.fl0
    /\ circuitBreaker.failureCount = ev.cb0.failureCount
    /\ rateLimitInfo = ev.rl0

\* C20 witness: a call was turned away by the exhausted rate limiter while the
\* breaker had counted failures
C20_Witness ==
  /\ CallBegan /\ ev.code = "RATE_LIMIT_EXCEEDED"
  /\ ev.cb0.failureCount > 0
  /\ ev.rl0.remaining = 0

\* C17: once a check of a URL has succeeded, a check of the same URL (after
\* normalization) begun within the time-to-live dispatches no upstream request.
C17_CachedWithinTtl ==
  ( /\ CallBegan
    /\ verifiedAt # {}
    /\ \A t \in verifiedAt : ev.at - t < CACHE_TTL_MS ) => ~ev.sent

\* C19: of the calls dispatched since the breaker was last CLOSED with
\* failureCount 0 and before it next left OPEN, at most 5 have ended in failure.
C19_AtMostFiveWasted == wasted.n <= FAILURE_THRESHOLD

\* C18: at most one SafeBrowsingClient has been constructed, every
\* getSafeBrowsingClient call that returned, returned the reference clientInstance
\* holds, and so the breaker and rate-limit records reached through any two
\* returned references are the same.
C18_Singleton ==
  /\ Len(instances) <= 1
  /\ \A k \in DOMAIN refs : refs[k] # {} => refs[k] = clientInstance
  /\ \A j, k \in DOMAIN refs :
       (refs[j] # {} /\ refs[k] # {}) =>
         instances[Deref(refs[j])] = instances[Deref(refs[k])]

\* C18 witness: a call failed for want of an API key, two later calls returned a
\* client, and failures and responses have been counted through it
C18_Witness ==
  /\ Len(refs) = MaxGetCalls
  /\ refs[1] = {} /\ refs[2] # {} /\ refs[3] # {}
  /\ instances[Deref(refs[2])].circuitBreaker.failureCount > 0
  /\ instances[Deref(refs[3])].rateLimitInfo.remaining < Limit

\* C21: a checkUrls call with no URL fails with INVALID_INPUT ("No URLs provided")
\* and one with more than 500 URLs with TOO_MANY_URLS, whatever the breaker and the
\* rate limiter hold; it dispatches nothing and leaves both records as they were.
C21_InputSizeErrors ==
  (ev.type = "begin" /\ ev.n \notin 1..MAX_URLS_PER_REQUEST) =>
    /\ ev.n = 0 => ev.code = "INVALID_INPUT"
    /\ ev.n > MAX_URLS_PER_REQUEST => ev.code = "TOO_MANY_URLS"
    /\ ~ev.sent
    /\ InFlightTotal = ev.fl0
    /\ circuitBreaker = ev.cb0
    /\ rateLimitInfo = ev.rl0

\* C21 witness: a call with 501 URLs made while the breaker was OPEN and the rate
\* limiter exhausted
C21_Witness ==
  /\ ev.type = "begin" /\ ev.n > MAX_URLS_PER_REQUEST
  /\ ev.code = "TOO_MANY_URLS"
  /\ ev.cb0.state = "OPEN"
  /\ ev.rl0.remaining = 0

\* C22: with the breaker CLOSED and tokens left, a call whose input holds a URL
\* that is not a string or is empty once trimmed fails with INVALID_URL and
\* dispatches nothing.
C22_BlankUrlIsInvalidUrl ==
  ( /\ CallBegan
    /\ ev.blank
    /\ ev.cb0.state = "CLOSED"
    /\ ev.rl0.remaining > 0 ) =>
      (ev.code = "INVALID_URL" /\ ~ev.sent)


(***************************************************************************)
(* C23: a parse of the response for n sanitized URLs returns exactly n     *)
(* results, the i-th carrying the i-th URL; a result is safe iff no        *)
(* returned match has a flagged URL exactly equal to its URL; its threats  *)
(* are those matches, in the order of the response; equal URLs get equal   *)
(* verdicts, each computed on its own.                                     *)
(***************************************************************************)
\* the positions of the response's matches whose flagged URL is url
MatchPositions(url) == { k \in 1..Len(fn.matches) : fn.matches[k].url = url }

\* threats lists the matches at the positions P, in increasing position
ListsInOrder(threats, P) ==
  /\ Len(threats) = Cardinality(P)
  /\ \E f \in [1..Len(threats) -> P] :
       /\ \A a, b \in 1..Len(threats) : a < b => f[a] < f[b]
       /\ \A a \in 1..Len(threats) :
            /\ threats[a].type = fn.matches[f[a]].threatType
            /\ threats[a].platform = fn.matches[f[a]].platformType

C23_ParseResponse ==
  (fn.op = "parseResponse" /\ fn.done) =>
    /\ Len(fn.out) = Len(fn.urls)
    /\ \A i \in 1..Len(fn.urls) :
         /\ fn.out[i].url = fn.urls[i]
         /\ fn.out[i].isSafe <=> MatchPositions(fn.urls[i]) = {}
         /\ ListsInOrder(fn.out[i].threats, MatchPositions(fn.urls[i]))
    /\ \A i, j \in 1..Len(fn.urls) :
         fn.urls[i] = fn.urls[j] =>
           /\ fn.out[i].isSafe = fn.out[j].isSafe
           /\ fn.out[i].threats = fn.out[j].threats

\* the same URL twice, flagged by two matches, with a match for another URL
\* between them in the response
C23_Witness ==
  /\ fn.op = "parseResponse" /\ fn.done
  /\ Len(fn.urls) = 2 /\ fn.urls[1] = fn.urls[2]
  /\ ~fn.out[1].isSafe /\ ~fn.out[2].isSafe
  /\ \E k \in 1..Len(fn.matches) : fn.matches[k].url # fn.urls[1]


(***************************************************************************)
(* C24: generateUniqueShortCode called with a length outside 4..8 or a     *)
(* maxRetries outside 1..100 returns a configuration failure with          *)
(* attempts = 0, and has generated no candidate and issued no store query. *)
(***************************************************************************)
C24_InvalidConfigFailsFast ==
  (gen.pc # "idle" /\ ~ValidGenConfig) =>
    /\ gen.pc = "done"
    /\ ~gen.result.success
    /\ gen.result.error.kind \in {"invalid length", "invalid maxRetries"}
    /\ gen.result.attempts = 0
    /\ gen.result.shortCode = <<>>
    /\ genLog.generated = 0 /\ genLog.queries = 0 /\ genLog.replies = 0

\* a valid length with maxRetries = 101, rejected
C24_Witness ==
  /\ gen.pc = "done"
  /\ gen.length \in MIN_CODE_LENGTH..MAX_CODE_LENGTH
  /\ gen.maxRetries = MAX_RETRIES_ALLOWED + 1
  /\ gen.result.error.kind = "invalid maxRetries"
  /\ gen.result.attempts = 0


(***************************************************************************)
(* C25: for every length L in 4..8 and every output of the random source,  *)
(* generateRandomCode returns exactly L characters, each of the 62 of the  *)
(* alphabet (a character is its index in CHARACTER_SET); for every L       *)
(* outside 4..8 it fails with the invalid-length error and returns no      *)
(* code.                                                                   *)
(***************************************************************************)
C25_RandomCode ==
  (fn.op = "generateRandomCode" /\ fn.done) =>
    IF fn.length \in MIN_CODE_LENGTH..MAX_CODE_LENGTH
    THEN /\ fn.out.err = ""
         /\ Len(fn.out.code) = fn.length
         /\ \A i \in 1..fn.length : fn.out.code[i] \in 0..(CHARACTER_SET_LENGTH - 1)
    ELSE fn.out.err = "InvalidLength" /\ fn.out.code = <<>>

\* the largest two-byte value, 65535, gives the character at index 1
C25_Witness ==
  /\ fn.op = "generateRandomCode" /\ fn.done
  /\ fn.length = MAX_CODE_LENGTH /\ fn.pair = <<255, 255>>
  /\ fn.out.code = [i \in 1..MAX_CODE_LENGTH |-> 1]

\* a length below the range is refused
C25_WitnessInvalid ==
  /\ fn.op = "generateRandomCode" /\ fn.done
  /\ fn.length = MIN_CODE_LENGTH - 1 /\ fn.out.err = "InvalidLength"


(***************************************************************************)
(* C26: isValidShortCodeFormat(code) is true iff code is a string of 4..8  *)
(* characters that are all in the 62-character alphabet; it is false for   *)
(* null, undefined, a value that is not a string and the empty string; so  *)
(* every code a successful generateUniqueShortCode returned satisfies it.  *)
(***************************************************************************)
C26_ValidFormat ==
  (fn.op = "isValidShortCodeFormat" /\ fn.done) =>
    /\ fn.out <=>
         /\ fn.value.type = "string"
         /\ Len(fn.value.chars) \in MIN_CODE_LENGTH..MAX_CODE_LENGTH
         /\ \A i \in 1..Len(fn.value.chars) :
              fn.value.chars[i] \in 0..(CHARACTER_SET_LENGTH - 1)
    /\ (fn.value.type # "string" \/ fn.value.chars = <<>>) => ~fn.out
    /\ fn.generated => fn.out

\* a generated code of the minimal length passes
C26_Witness ==
  /\ fn.op = "isValidShortCodeFormat" /\ fn.done /\ fn.generated
  /\ Len(fn.value.chars) = MIN_CODE_LENGTH /\ fn.out

\* a string of valid length with one character outside the alphabet is refused
C26_WitnessRefused ==
  /\ fn.op = "isValidShortCodeFormat" /\ fn.done /\ ~fn.generated
  /\ Len(fn.value.chars) = MIN_CODE_LENGTH /\ ~fn.out


C27_WitnessRefused ==
  /\ fn.op = "isRateLimited" /\ fn.limited
  /\ reqs[1].status = 429 /\ links # <<>>


(***************************************************************************)
(* C28: under any sequence of create and resolve requests, a link's        *)
(* short_code and long_url never change after its insertion; its           *)
(* click_count is >= 0 and never decreases; click_count changes only by an *)
(* increment_click_count step, which adds exactly 1 to the row of the code *)
(* it addresses, leaves every other row unchanged, and creates no row when *)
(* the code is absent.                                                     *)
(***************************************************************************)
\* the codes of the samples that the table does not hold
AbsentCodes == { c \in {CodeStored, CodeMalformed, CodeAbsent} : ~HasCode(links, c) }

\* in this step the rpc of request r runs the UPDATE
IncrementStep(r) == getReqs[r].inc = "pending" /\ getReqs'[r].inc = "applied"

C28_StoreState ==
  /\ \A i \in DOMAIN links : links[i].click_count >= 0
  /\ \A c \in AbsentCodes : increment_click_count(links, c) = links

C28_StoreStep ==
  /\ Len(links') >= Len(links)
  /\ \A i \in DOMAIN links :
       /\ links'[i].short_code = links[i].short_code
       /\ links'[i].long_url = links[i].long_url
       /\ links'[i].click_count >= links[i].click_count
  /\ (\E i \in DOMAIN links : links'[i].click_count # links[i].click_count) =>
       \E r \in GetRequests :
         /\ IncrementStep(r)
         /\ Len(links') = Len(links)
         /\ \A i \in DOMAIN links :
              links'[i].click_count =
                links[i].click_count +
                  (IF links[i].short_code = getReqs[r].shortId THEN 1 ELSE 0)
  /\ \A r \in GetRequests :
       IncrementStep(r) =>
         /\ Len(links') = Len(links)
         /\ \A i \in DOMAIN links :
              links'[i] = IF links[i].short_code = getReqs[r].shortId
                          THEN [links[i] EXCEPT !.click_count = @ + 1]
                          ELSE links[i]

C28_LinkStore == [](C28_StoreState) /\ [][C28_StoreStep]_vars

\* two links were created, and one of them has been followed twice
C28_Witness ==
  /\ Len(links) = 2
  /\ \E i, j \in DOMAIN links : links[i].click_count = 2 /\ links[j].click_count = 0
  /\ \A r \in GetRequests : getReqs[r].inc = "applied"
  /\ \E r \in Requests : reqs[r].status = 200


(***************************************************************************)
(* generateUniqueShortCode under a store whose every query returns: the    *)
(* await of isCodeExists always ends.                                      *)
(***************************************************************************)
GenReplies == \E reply \in StoreReplies, pair \in BytePairs : GenReply(reply, pair)

GenLiveSpec == GenSpecInit /\ [][GenNext]_vars /\ WF_vars(GenReplies)

(***************************************************************************)
(* C29: every generateUniqueShortCode call terminates, having generated at *)
(* most maxRetries candidates and issued at most maxRetries existence      *)
(* queries, whatever the store answers (exists, absent, an error result,   *)
(* or an exception on every query), provided each query itself returns.    *)
(***************************************************************************)
C29_Terminates ==
  /\ [](gen.pc = "query" => <>(gen.pc = "done"))
  /\ [](gen.pc # "idle" =>
          /\ genLog.generated <= IF ValidGenConfig THEN gen.maxRetries ELSE 0
          /\ genLog.queries <= genLog.generated
          /\ gen.attempts = genLog.generated)

\* a call that ended after maxRetries queries that all threw
C29_Witness ==
  /\ gen.pc = "done" /\ ValidGenConfig /\ gen.maxRetries > 1
  /\ genLog.queries = gen.maxRetries /\ genLog.generated = gen.maxRetries
  /\ genLog.lastReply = "rejected" /\ genLog.rows = 0


(***************************************************************************)
(* C30: every checkUrls call that passes the breaker, rate-limit and       *)
(* sanitization checks and then fails (the upstream call rejects or times  *)
(* out, answers non-2xx, its body cannot be read, or parsing throws)       *)
(* increments failureCount by exactly 1 before its error reaches the       *)
(* caller; every such call that succeeds sets failureCount to 0 and the    *)
(* state to CLOSED.                                                        *)
(***************************************************************************)
C30_FailureCounted ==
  /\ ev.type = "failure" =>
       /\ ev.code \in {"API_ERROR", "API_REQUEST_FAILED"}
       /\ circuitBreaker.failureCount = ev.cb0.failureCount + 1
  /\ ev.type = "success" =>
       circuitBreaker.failureCount = 0 /\ circuitBreaker.state = "CLOSED"

\* a call dispatched before the breaker opened fails after it: the count goes
\* past the threshold
C30_Witness ==
  /\ ev.type = "failure" /\ ev.code = "API_REQUEST_FAILED"
  /\ ev.cb0.failureCount = FAILURE_THRESHOLD /\ ev.cb0.state = "OPEN"
  /\ circuitBreaker.failureCount = FAILURE_THRESHOLD + 1

\* a trial call succeeds and closes the breaker
C30_WitnessSuccess ==
  /\ ev.type = "success" /\ ev.cb0.state = "HALF_OPEN"
  /\ ev.cb0.failureCount >= FAILURE_THRESHOLD
  /\ circuitBreaker.failureCount = 0 /\ circuitBreaker.state = "CLOSED"


(***************************************************************************)
(* C31: checkUrls evaluates the circuit breaker before the rate limiter    *)
(* and both before any upstream request: with the breaker OPEN inside its  *)
(* cool-down and remaining = 0 at once, the call fails with                *)
(* CIRCUIT_BREAKER_OPEN, not RATE_LIMIT_EXCEEDED; and no call is           *)
(* dispatched without having passed both checks, in that order (a call     *)
(* the limiter turns away has already been through the breaker, which has  *)
(* moved from OPEN to HALF_OPEN when the cool-down was over).              *)
(***************************************************************************)
C31_BreakerBeforeLimiter ==
  /\ (CallBegan /\ WasOpenInCooldown /\ ev.rl0.remaining = 0) =>
       ev.code = "CIRCUIT_BREAKER_OPEN" /\ ~ev.sent
  /\ (ev.type = "begin" /\ ev.sent) =>
       /\ ~WasOpenInCooldown
       /\ ev.rl0.remaining > 0
       /\ circuitBreaker.state # "OPEN"
  /\ (CallBegan /\ ev.code = "RATE_LIMIT_EXCEEDED") =>
       /\ ~WasOpenInCooldown
       /\ ev.cb0.state = "OPEN" => circuitBreaker.state = "HALF_OPEN"

\* both checks would refuse the call: the breaker answers
C31_Witness ==
  /\ CallBegan /\ WasOpenInCooldown /\ ev.rl0.remaining = 0
  /\ ev.code = "CIRCUIT_BREAKER_OPEN"


(***************************************************************************)
(* C32 as stated: a checkUrls call that completes successfully while the   *)
(* rate-limit window has not expired lowers remaining by exactly 1 (at the *)
(* arrival of its response, where updateRateLimitInfo runs); a call whose  *)
(* upstream request failed without a response leaves remaining unchanged.  *)
(***************************************************************************)
C32_ResponseSpendsOneToken ==
  /\ (ev.type = "response" /\ ev.at <= ev.rl0.resetTime) =>
       rateLimitInfo.remaining = ev.rl0.remaining - 1
  /\ ev.type \in {"begin", "failure"} => rateLimitInfo = ev.rl0


(***************************************************************************)
(* The Threat-Check Client with its calls told apart: each checkUrls call  *)
(* suspended at an await is kept with the breaker state it was let through *)
(* in, and the requests dispatched since the rate-limit window was last    *)
(* reset are counted.  Every call checks one well-formed URL.              *)
(***************************************************************************)
Calls == 1..MaxInFlight

IdleCall == [pc |-> "idle", via |-> ""]

CallsInput == <<"https://safe.example">>

CallsInit ==
  fn = [op |-> "calls", calls |-> [i \in Calls |-> IdleCall], dispatched |-> 0,
        last |-> [type |-> "init", code |-> "", via |-> ""]]

\* what a step of the calls leaves alone
CallsRest ==
  UNCHANGED <<inflight, ev, streak, responsesInWindow,
              genVars, createVars, resolveVars, auditVars, singletonVars>>

\* checkUrls from its entry to the await of fetch(), in the lowest free slot
CallBegins(i) ==
  LET r == checkUrlsEntry(CallsInput, circuitBreaker, rateLimitInfo, now)
  IN /\ fn.calls[i].pc = "idle"
     /\ \A j \in Calls : j < i => fn.calls[j].pc # "idle"
     /\ circuitBreaker' = r.cb
     /\ fn' = IF r.err = ""
              THEN [fn EXCEPT !.calls[i] = [pc |-> "fetch", via |-> r.cb.state],
                              !.dispatched = @ + 1,
                              !.last = [type |-> "begin", code |-> "", via |-> r.cb.state]]
              ELSE [fn EXCEPT !.last = [type |-> "begin", code |-> r.err, via |-> ""]]
     /\ UNCHANGED <<now, rateLimitInfo>>
     /\ CallsRest

\* the catch block of checkUrls, reached by call i
CallThrows(i, code) ==
  /\ circuitBreaker' = handleCircuitBreakerFailure(circuitBreaker, now)
  /\ fn' = [fn EXCEPT !.calls[i] = IdleCall,
                      !.last = [type |-> "failure", code |-> code, via |-> fn.calls[i].via]]
  /\ UNCHANGED <<now, rateLimitInfo>>
  /\ CallsRest

\* the fetch() of call i rejects (network error or timeout)
CallFetchRejects(i) ==
  /\ fn.calls[i].pc = "fetch"
  /\ CallThrows(i, "API_ERROR")

\* the fetch() of call i resolves: updateRateLimitInfo, then the body is awaited
CallResponseArrives(i, ok) ==
  /\ fn.calls[i].pc = "fetch"
  /\ rateLimitInfo' = updateRateLimitInfo(rateLimitInfo, now)
  /\ fn' = [fn EXCEPT !.calls[i].pc = IF ok THEN "bodyOk" ELSE "bodyErr",
                      !.dispatched = IF now > rateLimitInfo.resetTime THEN 0 ELSE @,
                      !.last = [type |-> "response", code |-> "", via |-> fn.calls[i].via]]
  /\ UNCHANGED <<now, circuitBreaker>>
  /\ CallsRest

\* call i throws after its response: a non-2xx status, or a body that cannot be read
CallBodyFails(i) ==
  /\ fn.calls[i].pc \in {"bodyOk", "bodyErr"}
  /\ CallThrows(i, IF fn.calls[i].pc = "bodyErr" THEN "API_REQUEST_FAILED" ELSE "API_ERROR")

\* call i returns its results: resetCircuitBreaker
CallReturns(i) ==
  /\ fn.calls[i].pc = "bodyOk"
  /\ circuitBreaker' = resetCircuitBreaker(circuitBreaker)
  /\ fn' = [fn EXCEPT !.calls[i] = IdleCall,
                      !.last = [type |-> "success", code |-> "", via |-> fn.calls[i].via]]
  /\ UNCHANGED <<now, rateLimitInfo>>
  /\ CallsRest

\* time passes
CallsTick ==
  /\ now < MaxTicks * TickMs
  /\ now' = now + TickMs
  /\ fn' = [fn EXCEPT !.last = [type |-> "tick", code |-> "", via |-> ""]]
  /\ UNCHANGED <<circuitBreaker, rateLimitInfo>>
  /\ CallsRest

CallsNext ==
  \/ \E i \in Calls : CallBegins(i)
  \/ \E i \in Calls : CallFetchRejects(i)
  \/ \E i \in Calls, ok \in BOOLEAN : CallResponseArrives(i, ok)
  \/ \E i \in Calls : CallBodyFails(i)
  \/ \E i \in Calls : CallReturns(i)
  \/ CallsTick

CallsSpecInit ==
  ClientInit /\ GenParked /\ CreateParked /\ ResolveParked /\ AuditParked
    /\ SingletonParked /\ CallsInit

CallsSpec == CallsSpecInit /\ [][CallsNext]_vars

\* the calls in flight that were let through while the breaker was HALF_OPEN
ProbesInFlight ==
  {i \in Calls : fn.calls[i].pc # "idle" /\ fn.calls[i].via = "HALF_OPEN"}


(***************************************************************************)
(* C33 as stated: for every interleaving of overlapping checkUrls calls on *)
(* one client, the number of upstream requests dispatched since the last   *)
(* rate-limit window reset never exceeds limit.                            *)
(***************************************************************************)
C33_DispatchesWithinLimit == fn.dispatched <= rateLimitInfo.limit


(***************************************************************************)
(* C34 as stated: while the breaker is HALF_OPEN and the probing call is   *)
(* in flight, no second upstream request is dispatched; one probe is let   *)
(* through after the cool-down, so at most one call let through in         *)
(* HALF_OPEN is in flight at any time.                                     *)
(***************************************************************************)
C34_OneProbe == Cardinality(ProbesInFlight) <= 1


(***************************************************************************)
(* C35 as stated: a call let through while the breaker is HALF_OPEN that   *)
(* fails returns the breaker to OPEN with nextAttemptTime 60 seconds after *)
(* that failure.                                                           *)
(***************************************************************************)
C35_FailedProbeReopens ==
  (fn.last.type = "failure" /\ fn.last.via = "HALF_OPEN") =>
    /\ circuitBreaker.state = "OPEN"
    /\ circuitBreaker.nextAttemptTime = {now + COOLDOWN_MS}


(***************************************************************************)
(* C36: in every reachable state of a client, under any interleaving of    *)
(* checkUrls calls: state = CLOSED implies failureCount <= 4; state = OPEN *)
(* implies failureCount >= 5 and nextAttemptTime is set; state = HALF_OPEN *)
(* implies failureCount >= 5; and failureCount is never negative.          *)
(***************************************************************************)
C36_BreakerRecord ==
  /\ circuitBreaker.state \in {"CLOSED", "OPEN", "HALF_OPEN"}
  /\ circuitBreaker.failureCount >= 0
  /\ circuitBreaker.state = "CLOSED" =>
       circuitBreaker.failureCount <= FAILURE_THRESHOLD - 1
  /\ circuitBreaker.state = "OPEN" =>
       /\ circuitBreaker.failureCount >= FAILURE_THRESHOLD
       /\ circuitBreaker.nextAttemptTime # {}
  /\ circuitBreaker.state = "HALF_OPEN" =>
       circuitBreaker.failureCount >= FAILURE_THRESHOLD

\* a call finds the breaker OPEN with the cool-down over and a count past the
\* threshold (a call in flight failed after the breaker had opened): HALF_OPEN
C36_Witness ==
  /\ CallBegan /\ WasOpenCooldownOver
  /\ circuitBreaker.state = "HALF_OPEN"
  /\ circuitBreaker.failureCount > FAILURE_THRESHOLD


(***************************************************************************)
(* C37 as stated: a checkUrls call that fails URL sanitization             *)
(* (INVALID_URL or INVALID_URL_FORMAT) dispatches no upstream request and  *)
(* leaves the whole circuit-breaker record and the rate-limit record       *)
(* exactly as they were before the call, in every starting state,          *)
(* including OPEN with the cool-down elapsed.                              *)
(***************************************************************************)
C37_SanitizeFailureChangesNothing ==
  (CallBegan /\ ev.code \in {"INVALID_URL", "INVALID_URL_FORMAT"}) =>
    /\ ~ev.sent
    /\ circuitBreaker = ev.cb0
    /\ rateLimitInfo = ev.rl0


(***************************************************************************)
(* C38: in every reachable state of a client, 0 <= remaining <= limit,     *)
(* under any interleaving of checkUrls calls and window resets.            *)
(***************************************************************************)
C38_RemainingInRange ==
  /\ 0 <= rateLimitInfo.remaining
  /\ rateLimitInfo.remaining <= rateLimitInfo.limit

\* a response arrives for a call dispatched on a token another call has spent
\* since: remaining stays at 0
C38_Witness ==
  /\ ev.type = "response" /\ ev.at <= ev.rl0.resetTime
  /\ ev.rl0.remaining = 0 /\ rateLimitInfo.remaining = 0

\* a response arrives after the window has ended: remaining is back at limit
C38_WitnessReset ==
  /\ ev.type = "response" /\ ev.at > ev.rl0.resetTime
  /\ ev.rl0.remaining < Limit /\ rateLimitInfo.remaining = rateLimitInfo.limit


(***************************************************************************)
(* The index of one symbol of a code (supabase.js line 96):                *)
(*   (randomBytes[i * 2] << 8 | randomBytes[i * 2 + 1]) % CHARACTER_SET.length *)
(* << and | work on 32-bit two's-complement integers, modelled as          *)
(* sequences of bits, least significant first; % takes the sign of its     *)
(* left operand.                                                           *)
(***************************************************************************)
\* the width of the operands of << and |
INT32_BITS == 32

BitPositions == 1..INT32_BITS

\* the bits of x, for 0 <= x < 2^31
ToBits(x) ==
  [i \in BitPositions |-> IF i = INT32_BITS THEN 0 ELSE (x \div 2^(i - 1)) % 2]

\* bits << n: the n highest bits are lost
ShiftLeft(bits, n) ==
  [i \in BitPositions |-> IF i <= n THEN 0 ELSE bits[i - n]]

\* a | b
BitOr(a, b) ==
  [i \in BitPositions |-> IF a[i] = 1 \/ b[i] = 1 THEN 1 ELSE 0]

RECURSIVE LowBitsValue(_, _)
\* the number written by the i lowest bits
LowBitsValue(bits, i) ==
  IF i = 0 THEN 0 ELSE bits[i] * 2^(i - 1) + LowBitsValue(bits, i - 1)

\* the signed integer the 32 bits stand for
ToInt32(bits) ==
  LET low == LowBitsValue(bits, INT32_BITS - 1)
  IN IF bits[INT32_BITS] = 1
     THEN (low - 2^(INT32_BITS - 2)) - 2^(INT32_BITS - 2)
     ELSE low

\* a % n in JavaScript, n > 0: the result has the sign of a
Remainder(a, n) ==
  IF a >= 0 \/ a % n = 0 THEN a % n ELSE (a % n) - n

\* randomBytes[i * 2] << 8 | randomBytes[i * 2 + 1]
shiftOr(hi, lo) == ToInt32(BitOr(ShiftLeft(ToBits(hi), 8), ToBits(lo)))

\* a randomIndex that looks at the second byte only
randomIndex_OneByte(hi, lo) == Remainder(lo, CHARACTER_SET_LENGTH)

\* const randomIndex = (... << 8 | ...) % CHARACTER_SET.length
randomIndex(hi, lo) == Remainder(shiftOr(hi, lo), CHARACTER_SET_LENGTH)

\* the values of a byte of crypto.randomBytes
ByteValues == 0..(BYTE_RANGE - 1)

\* the symbols of CHARACTER_SET, by position
Symbols == 0..(CHARACTER_SET_LENGTH - 1)

\* every pair of bytes with its index
PairIndexes(bytes) == {<<hi, lo, randomIndex(hi, lo)>> : hi \in bytes, lo \in bytes}

\* the numbers of pairs that give a symbol, over the symbols
PairsPerSymbol(indexed) ==
  {Cardinality({p \in indexed : p[3] = s}) : s \in Symbols}

\* randomIndex on every pair of bytes; beside the call, the spread of all the
\* pairs over the symbols
IndexInit ==
  fn \in [op : {"randomIndex"}, hi : ByteValues, lo : ByteValues,
          done : {FALSE}, word : {0}, out : {0},
          perSymbol : {PairsPerSymbol(PairIndexes(ByteValues))}]

IndexCall ==
  /\ fn.op = "randomIndex" /\ ~fn.done
  /\ fn' = [fn EXCEPT !.done = TRUE, !.word = shiftOr(fn.hi, fn.lo),
                      !.out = randomIndex(fn.hi, fn.lo)]
  /\ PureFrame

IndexSpecInit == PureRest /\ IndexInit

IndexSpec == IndexSpecInit /\ [][IndexCall]_vars


(***************************************************************************)
(* C39: for every pair of random bytes (b1, b2) in 0..255 the symbol index *)
(* ((b1 << 8) | b2) mod 62 lies in 0..61 with no overflow (the 32-bit      *)
(* word is the 16-bit number b1 * 256 + b2 exactly), every one of the 62   *)
(* symbols is reachable, and over all 65,536 byte pairs the numbers of     *)
(* pairs mapping to any two symbols differ by at most 1.                   *)
(***************************************************************************)
C39_IndexRangeAndSpread ==
  fn.op = "randomIndex" =>
    /\ fn.done =>
         /\ fn.word = fn.hi * BYTE_RANGE + fn.lo
         /\ fn.word \in 0..(BYTE_RANGE * BYTE_RANGE - 1)
         /\ fn.out \in Symbols
    /\ \A n \in fn.perSymbol : n >= 1
    /\ \A n, m \in fn.perSymbol : n - m <= 1

\* the largest pair: 65535 = 62 * 1057 + 1, on one of the two symbols that
\* take one pair more than the other sixty
C39_Witness ==
  /\ fn.op = "randomIndex" /\ fn.done
  /\ fn.hi = BYTE_RANGE - 1 /\ fn.lo = BYTE_RANGE - 1
  /\ fn.word = BYTE_RANGE * BYTE_RANGE - 1
  /\ fn.out = 1
  /\ fn.perSymbol = {1057, 1058}

====
